---- MODULE Spec2Model ----
(***************************************************************************)
(* Dark-pool settlement bridge of the perpetuals program                   *)
(* (programs/perpetuals/src/instructions/settle_dark_pool_trade.rs), the   *)
(* dark-pool program (encrypted-perp/programs/mgk_program/src/darkpool.rs) *)
(* and the matching circuits (encrypted-perp/encrypted-ixs/src/darkpool.rs)*)
(* as a state machine.                                                     *)
(*                                                                         *)
(* An instruction handler is one action.  A handler works on the           *)
(* deserialized accounts of its context and returns a Result; the accounts *)
(* are written back only when it returns Ok, so a handler is modelled as   *)
(* an operator from the accounts and its parameters to                     *)
(* [err, acc, events] (acc: the in-memory accounts when it returned) and   *)
(* the action commits acc when err = "Ok".                                 *)
(*                                                                         *)
(* Unsigned 64-bit integers are scaled to WordBits bits and 128-bit ones   *)
(* to 2*WordBits bits.  An unchecked `+`, `+=` or `*` that overflows       *)
(* panics in a build with overflow checks and wraps in one without: the    *)
(* build is the variable overflow_checks, chosen in Init.                  *)
(***************************************************************************)
EXTENDS Integers, Sequences, FiniteSets, TLC

\* ---------------------------------------------------------------- bounds
\* Width of the model's "u64"; "u128" has twice the width.
WordBits == 14
\* Successful settlements explored by Spec and by SpecFills.
MaxSettles == 2
MaxFills == 4
MaxBatch == 3
MaxGuarded == 1
MaxSettlementCount == 2
\* Token balance of each trader's funding account in Init.
InitFunds == 2
\* The longest batch of orders given to the matching circuit.
MaxOrders == 3
\* The computations queued in a behaviour.
MaxQueued == 2

U64 == 2 ^ WordBits
U64Max == U64 - 1
U128 == U64 * U64

\* ------------------------------------------------------ program constants
\* current_time - trade_data.timestamp < 300
MaxTradeAge == 300
\* (price_diff * 10000) / custody_oracle_price.price
BpsPower == 10000
\* let current_time = 1600000000u64
PlaceholderTime == 1600000000
\* order.leverage <= 100
MaxLeverage == 100

\* ------------------------------------------------------------ identities
NoKey == "none"
Traders == {"t1", "t2"}
PoolKey == "pool"
CustodyKey == "custody"
CollateralCustodyKey == "collateral_custody"
DarkpoolProgramKey == "darkpool_program"
OtherPoolKey == "other_pool"
Sides == {"Long", "Short"}
\* darkpool_signature: all-zero bytes, bytes the matching authority produced
\* for the trade, and any other non-zero bytes.
Signatures == {"zero", "authority", "forged"}

VARIABLES
    positions,        \* Position accounts, by PDA seeds (owner, pool, custody, side)
    funding,          \* balance of each trader's funding token account
    vault,            \* balance of collateral_custody_token_account
    volume_usd,       \* custody.trade_stats.volume_usd
    now,              \* Clock::get()?.unix_timestamp
    overflow_checks,  \* the build: TRUE panics on integer overflow, FALSE wraps
    outcome,          \* what the last instruction returned: [err, at]
    emitted,          \* the events the last instruction emitted before returning
    settled,          \* history: the parameters of every successful settlement
    darkpool,         \* the Darkpool account of the darkpool program
    submitted,        \* the last batch instruction: [instruction, trades, time]
    inflight,         \* the settlement transactions in flight, by slot
    base,             \* history: the accounts the behaviour started from
    request,          \* the last settle_dark_pool_trade call: [params, ctx, time]
    orders,           \* the batch of DarkOrder given to the matching circuit
    result,           \* the MatchResult the matching circuit returned
    computation       \* the confidential computation queued last

vars == <<positions, funding, vault, volume_usd, now, overflow_checks,
          outcome, emitted, settled, darkpool, submitted, inflight, base,
          request, orders, result, computation>>

\* ------------------------------------------------------------- positions
PosKeys == Traders \X {PoolKey} \X {CustodyKey} \X Sides

PositionKey(trader, side) == <<trader, PoolKey, CustodyKey, side>>

\* A Position account no settlement has written: all fields zero.
EmptyPosition ==
    [owner |-> NoKey, pool |-> NoKey, custody |-> NoKey,
     collateral_custody |-> NoKey, open_time |-> 0, update_time |-> 0,
     side |-> "None", price |-> 0, size_usd |-> 0,
     collateral_amount |-> 0, collateral_usd |-> 0]

\* --------------------------------------------------------------- helpers
\* Op applied to the value of v, with v evaluated once.
Let(v, Op(_)) == CHOOSE r \in {Op(x) : x \in {v}} : TRUE

\* ------------------------------------------------------------ arithmetic
\* a + b on u64: [ok |-> no panic, val |-> the value when it does not panic].
AddU64(a, b) ==
    [ok |-> (a + b < U64) \/ ~overflow_checks, val |-> (a + b) % U64]

\* a * b on u64.
MulU64(a, b) ==
    [ok |-> (a * b < U64) \/ ~overflow_checks, val |-> (a * b) % U64]

\* a + b and a * b on u128 (operands already widened).
AddU128(a, b) ==
    [ok |-> (a + b < U128) \/ ~overflow_checks, val |-> (a + b) % U128]

MulU128(a, b) ==
    [ok |-> (a * b < U128) \/ ~overflow_checks, val |-> (a * b) % U128]

\* The ends of the i64 range, scaled like u64.
I64Min == -(U64 \div 2)
I64Max == (U64 \div 2) - 1

\* a - b on i64.
SubI64(a, b) ==
    [ok |-> (a - b >= I64Min /\ a - b <= I64Max) \/ ~overflow_checks,
     val |-> ((a - b - I64Min) % U64) + I64Min]

\* pool.get_usd_amount(amount, collateral_oracle_price, collateral_custody):
\* the token amount at the collateral oracle price, in checked arithmetic.
get_usd_amount(amount, collateral_price) ==
    [ok |-> amount * collateral_price < U64, val |-> amount * collateral_price]

\* ------------------------------------------------- settle_dark_pool_trade
\* The accounts one settlement works on.
Accounts == [positions |-> positions, funding |-> funding, vault |-> vault,
             volume_usd |-> volume_usd]

\* What a handler returns: the error ("Ok": none), the in-memory accounts at
\* that point and the events emitted so far; at names the statement of the
\* handler that returned.
Return(err, acc, events) ==
    [err |-> err, at |-> "", acc |-> acc, events |-> events]

At(place, ret) == [ret EXCEPT !.at = place]

\* Mutant: the vault is credited and the funding account is not debited.
token_transfer_no_debit(acc, funder, amount) ==
    IF acc.funding[funder] < amount \/ acc.vault + amount >= U64
    THEN Return("TransferFailed", acc, <<>>)
    ELSE Return("Ok", [acc EXCEPT !.vault = @ + amount], <<>>)

\* anchor_spl::token::transfer from the trader's funding account to the
\* custody token account: fails on insufficient funds (or a full vault).
token_transfer(acc, funder, amount) ==
    IF acc.funding[funder] < amount \/ acc.vault + amount >= U64
    THEN Return("TransferFailed", acc, <<>>)
    ELSE Return("Ok",
                [acc EXCEPT !.funding[funder] = @ - amount,
                            !.vault = @ + amount],
                <<>>)

\* Mutant: the new position takes pool, custody and collateral_custody from
\* the trade record.
open_position_trade_keys(position, trade_data, collateral_amount, side, current_time) ==
    [position EXCEPT !.owner = trade_data.trader_a,
                     !.pool = trade_data.pool,
                     !.custody = trade_data.custody,
                     !.collateral_custody = trade_data.collateral_custody,
                     !.open_time = current_time,
                     !.side = side,
                     !.price = trade_data.price,
                     !.size_usd = trade_data.size_usd,
                     !.collateral_amount = collateral_amount]

\* Mutant: the new-position branch without open_time.
open_position_no_open_time(position, trade_data, collateral_amount, side, current_time) ==
    [position EXCEPT !.owner = trade_data.trader_a,
                     !.pool = PoolKey,
                     !.custody = CustodyKey,
                     !.collateral_custody = CollateralCustodyKey,
                     !.side = side,
                     !.price = trade_data.price,
                     !.size_usd = trade_data.size_usd,
                     !.collateral_amount = collateral_amount]

\* The new-position branch up to collateral_amount (collateral_usd follows).
open_position(position, trade_data, collateral_amount, side, current_time) ==
    [position EXCEPT !.owner = trade_data.trader_a,
                     !.pool = PoolKey,
                     !.custody = CustodyKey,
                     !.collateral_custody = CollateralCustodyKey,
                     !.open_time = current_time,
                     !.side = side,
                     !.price = trade_data.price,
                     !.size_usd = trade_data.size_usd,
                     !.collateral_amount = collateral_amount]

\* Mutant: the mean of the two prices, not weighted by the sizes.
weighted_price_unweighted(position, trade_data, new_total_size) ==
    [ok |-> new_total_size # 0,
     val |-> (position.price + trade_data.price) \div 2]

\* Mutant: the products and their sum in 64 bits.
weighted_price_64(position, trade_data, new_total_size) ==
    LET a == MulU64(position.price, position.size_usd)
        b == MulU64(trade_data.price, trade_data.size_usd)
        s == AddU64(a.val, b.val)
    IN  [ok |-> a.ok /\ b.ok /\ s.ok /\ new_total_size # 0,
         val |-> IF new_total_size = 0 THEN 0
                 ELSE (s.val \div new_total_size) % U64]

\* ((price as u128 * size_usd as u128) + (trade.price as u128 *
\*   trade.size_usd as u128)) / new_total_size as u128, then `as u64`.
\* ok is FALSE when the expression panics (overflow under checks, or a
\* division by zero).
weighted_price(position, trade_data, new_total_size) ==
    LET a == MulU128(position.price, position.size_usd)
        b == MulU128(trade_data.price, trade_data.size_usd)
        s == AddU128(a.val, b.val)
    IN  [ok |-> a.ok /\ b.ok /\ s.ok /\ new_total_size # 0,
         val |-> IF new_total_size = 0 THEN 0
                 ELSE (s.val \div new_total_size) % U64]

\* The existing-position branch: size_usd, price, collateral_amount and
\* collateral_usd, in the order of the code.  [err, position].
increase_position(position, trade_data, collateral_amount, collateral_price) ==
    LET new_total_size == AddU64(position.size_usd, trade_data.size_usd)
        weighted == weighted_price(position, trade_data, new_total_size.val)
        p1 == [position EXCEPT !.size_usd = new_total_size.val,
                               !.price = weighted.val]
        amount == AddU64(position.collateral_amount, collateral_amount)
        p2 == [p1 EXCEPT !.collateral_amount = amount.val]
        usd == get_usd_amount(collateral_amount, collateral_price)
        total_usd == AddU64(position.collateral_usd, usd.val)
    IN  IF ~new_total_size.ok \/ ~weighted.ok
        THEN [err |-> "Panic", position |-> position]
        ELSE IF ~amount.ok THEN [err |-> "Panic", position |-> p1]
        ELSE IF ~usd.ok THEN [err |-> "MathOverflow", position |-> p2]
        ELSE IF ~total_usd.ok THEN [err |-> "Panic", position |-> p2]
        ELSE [err |-> "Ok",
              position |-> [p2 EXCEPT !.collateral_usd = total_usd.val]]

\* The position of one leg after the update, before update_time:
\* [err, position].
update_position(position, trade_data, collateral_amount, side, collateral_price, current_time) ==
    IF position.size_usd = 0
    THEN IF get_usd_amount(collateral_amount, collateral_price).ok
         THEN [err |-> "Ok",
               position |->
                   [open_position(position, trade_data, collateral_amount,
                                  side, current_time)
                    EXCEPT !.collateral_usd =
                        get_usd_amount(collateral_amount,
                                       collateral_price).val]]
         ELSE [err |-> "MathOverflow",
               position |-> open_position(position, trade_data,
                                          collateral_amount, side,
                                          current_time)]
    ELSE increase_position(position, trade_data, collateral_amount,
                           collateral_price)

\* One leg of the settlement.
settle_trader_position(acc, trade_data, key, funder, collateral_amount, side, collateral_price, current_time) ==
    Let(update_position(acc.positions[key], trade_data, collateral_amount,
                        side, collateral_price, current_time),
        LAMBDA updated :
            IF updated.err # "Ok"
            THEN Return(updated.err,
                        [acc EXCEPT !.positions[key] = updated.position],
                        <<>>)
            ELSE Let([acc EXCEPT !.positions[key] =
                          [updated.position
                           EXCEPT !.update_time = current_time]],
                     LAMBDA acc2 :
                         IF collateral_amount > 0
                         THEN token_transfer(acc2, funder, collateral_amount)
                         ELSE Return("Ok", acc2, <<>>)))

\* verify_darkpool_signature: the error, or "Ok".
verify_darkpool_signature(trade_data, current_time) ==
    IF trade_data.darkpool_signature = "zero" THEN "InvalidSignature"
    ELSE IF ~SubI64(current_time, trade_data.timestamp).ok THEN "Panic"
    ELSE IF ~(SubI64(current_time, trade_data.timestamp).val < MaxTradeAge)
         THEN "TradeDataTooOld"
    ELSE "Ok"

\* The slippage check of settle_dark_pool_trade: the error, or "Ok".
check_slippage(trade_data, oracle_price, max_price_slippage) ==
    LET price_diff == IF oracle_price > trade_data.price
                      THEN oracle_price - trade_data.price
                      ELSE trade_data.price - oracle_price
        scaled == MulU64(price_diff, BpsPower)
    IN  IF ~scaled.ok \/ oracle_price = 0 THEN "Panic"
        ELSE IF (scaled.val \div oracle_price) <= max_price_slippage THEN "Ok"
        ELSE "PriceSlippageTooHigh"

DarkPoolTradeSettled(trade_data, current_time) ==
    [event |-> "DarkPoolTradeSettled",
     trader_a |-> trade_data.trader_a, trader_b |-> trade_data.trader_b,
     size_usd |-> trade_data.size_usd, price |-> trade_data.price,
     pool |-> trade_data.pool, custody |-> trade_data.custody,
     timestamp |-> current_time]

\* Mutant: the sides are not compared.
verify_trade_parameters_no_sides(trade_data) ==
    IF ~(trade_data.size_usd > 0) THEN "InvalidPositionSize"
    ELSE IF ~(trade_data.price > 0) THEN "InvalidPrice"
    ELSE "Ok"

\* The parameter checks of settle_dark_pool_trade, in the order of the code:
\* the error, or "Ok".
verify_trade_parameters(trade_data) ==
    IF ~(trade_data.size_usd > 0) THEN "InvalidPositionSize"
    ELSE IF ~(trade_data.price > 0) THEN "InvalidPrice"
    ELSE IF ~(trade_data.side_a # trade_data.side_b) THEN "InvalidTradeSides"
    ELSE "Ok"

\* The statistics and the event, after both legs.
update_statistics(acc, trade_data, current_time) ==
    IF ~AddU64(acc.volume_usd, trade_data.size_usd).ok
    THEN At("statistics", Return("Panic", acc, <<>>))
    ELSE At("end",
            Return("Ok",
                   [acc EXCEPT !.volume_usd =
                        AddU64(acc.volume_usd, trade_data.size_usd).val],
                   <<DarkPoolTradeSettled(trade_data, current_time)>>))

\* The two legs and the statistics, once the trade is admitted.
settle_both_legs(acc, params, ctx, current_time) ==
    Let(settle_trader_position(
            acc, params.trade_data,
            PositionKey(params.trade_data.trader_a, params.trade_data.side_a),
            params.trade_data.trader_a, params.collateral_amount_a,
            params.trade_data.side_a, ctx.collateral_oracle.price,
            current_time),
        LAMBDA leg_a :
            IF leg_a.err # "Ok" THEN At("leg_a", leg_a)
            ELSE Let(settle_trader_position(
                         leg_a.acc, params.trade_data,
                         PositionKey(params.trade_data.trader_b,
                                     params.trade_data.side_b),
                         params.trade_data.trader_b,
                         params.collateral_amount_b,
                         params.trade_data.side_b,
                         ctx.collateral_oracle.price, current_time),
                     LAMBDA leg_b :
                         IF leg_b.err # "Ok" THEN At("leg_b", leg_b)
                         ELSE update_statistics(leg_b.acc, params.trade_data,
                                                current_time)))

\* Mutant: the statistic is updated before the slippage check.
settle_dark_pool_trade_statistics_first(acc, params, ctx, current_time) ==
    LET trade_data == params.trade_data
        signature == verify_darkpool_signature(trade_data, current_time)
        parameters == verify_trade_parameters(trade_data)
        slippage == check_slippage(trade_data, ctx.custody_oracle.price,
                                   params.max_price_slippage)
    IN  IF signature # "Ok"
        THEN At("signature", Return(signature, acc, <<>>))
        ELSE IF parameters # "Ok"
             THEN At("parameters", Return(parameters, acc, <<>>))
        ELSE IF ~ctx.custody_oracle.ok \/ ~ctx.collateral_oracle.ok
             THEN At("oracle", Return("OracleError", acc, <<>>))
        ELSE IF slippage # "Ok"
             THEN At("slippage",
                     Return(slippage,
                            update_statistics(acc, trade_data,
                                              current_time).acc,
                            <<>>))
        ELSE settle_both_legs(acc, params, ctx, current_time)

\* The handler.  ctx holds what the other accounts of the context supply: the
\* two oracle reads ([ok, price]) and the darkpool_program key.
settle_dark_pool_trade(acc, params, ctx, current_time) ==
    LET trade_data == params.trade_data
        signature == verify_darkpool_signature(trade_data, current_time)
        parameters == verify_trade_parameters(trade_data)
        slippage == check_slippage(trade_data, ctx.custody_oracle.price,
                                   params.max_price_slippage)
    IN  IF signature # "Ok"
        THEN At("signature", Return(signature, acc, <<>>))
        ELSE IF parameters # "Ok"
             THEN At("parameters", Return(parameters, acc, <<>>))
        ELSE IF ~ctx.custody_oracle.ok \/ ~ctx.collateral_oracle.ok
             THEN At("oracle", Return("OracleError", acc, <<>>))
        ELSE IF slippage # "Ok"
             THEN At("slippage", Return(slippage, acc, <<>>))
        ELSE settle_both_legs(acc, params, ctx, current_time)

\* The account constraints of SettleDarkPoolTrade, checked before the
\* handler runs: darkpool_program.key() == params.expected_darkpool_program.
SettleDarkPoolTradeAccounts(params, ctx) ==
    IF ctx.darkpool_program = params.expected_darkpool_program THEN "Ok"
    ELSE "ConstraintRaw"

\* The instruction as the runtime runs it: the constraints, then the handler.
settle_instruction(acc, params, ctx, current_time) ==
    IF SettleDarkPoolTradeAccounts(params, ctx) # "Ok"
    THEN At("accounts",
            Return(SettleDarkPoolTradeAccounts(params, ctx), acc, <<>>))
    ELSE settle_dark_pool_trade(acc, params, ctx, current_time)

\* Mutant: what the handler wrote before it failed is kept.
CommittedPartial(acc, ret) == ret.acc

\* The accounts after the instruction: those the handler left when it
\* returned Ok, and the ones before it otherwise (an Err is propagated by `?`
\* out of the handler and the transaction is not applied).
Committed(acc, ret) == IF ret.err = "Ok" THEN ret.acc ELSE acc

\* ------------------------------------------ batch_settle_dark_pool_trades
DarkPoolTradeQueued(trade) ==
    [event |-> "DarkPoolTradeQueued",
     trader_a |-> trade.trader_a, trader_b |-> trade.trader_b,
     size_usd |-> trade.size_usd, price |-> trade.price,
     timestamp |-> trade.timestamp]

\* The loop of batch_settle_dark_pool_trades from trade i on, events being
\* what the earlier iterations emitted: `?` returns at the first trade
\* verify_darkpool_signature rejects.
RECURSIVE batch_settle_loop(_, _, _, _, _)
batch_settle_loop(acc, trades, i, events, current_time) ==
    IF i > Len(trades) THEN At("end", Return("Ok", acc, events))
    ELSE IF verify_darkpool_signature(trades[i], current_time) # "Ok"
         THEN At("signature",
                 Return(verify_darkpool_signature(trades[i], current_time),
                        acc, events))
    ELSE batch_settle_loop(acc, trades, i + 1,
                           Append(events, DarkPoolTradeQueued(trades[i])),
                           current_time)

batch_settle_dark_pool_trades(acc, params, current_time) ==
    batch_settle_loop(acc, params.trades, 1, <<>>, current_time)

\* ----------------------------------- settle_dark_pool_trades (darkpool)
AuthorityKey == "authority"
DarkpoolKey == "darkpool"

\* The Darkpool account as initialize_darkpool leaves it.
initialize_darkpool ==
    [authority |-> AuthorityKey, total_orders |-> 0, total_matches |-> 0,
     total_settlements |-> 0, total_volume |-> 0, last_order_time |-> 0,
     last_match_time |-> 0]

DarkPoolTradeSettlement(trade, current_time) ==
    [event |-> "DarkPoolTradeSettlement",
     trader_a |-> trade.trader_a, trader_b |-> trade.trader_b,
     size_usd |-> trade.size_usd, price |-> trade.price,
     pool |-> trade.pool, custody |-> trade.custody,
     timestamp |-> current_time]

\* The parameter checks on one trade of the settlement data.
validate_trade(trade) ==
    IF ~(trade.size_usd > 0) THEN "InvalidTradeSize"
    ELSE IF ~(trade.price > 0) THEN "InvalidTradePrice"
    ELSE "Ok"

\* The loop of settle_dark_pool_trades from trade i on: require! returns at
\* the first trade that fails a check.
RECURSIVE settle_trades_loop(_, _, _, _, _)
settle_trades_loop(acc, trades, i, events, current_time) ==
    IF i > Len(trades) THEN Return("Ok", acc, events)
    ELSE IF validate_trade(trades[i]) # "Ok"
         THEN At("parameters",
                 Return(validate_trade(trades[i]), acc, events))
    ELSE settle_trades_loop(acc, trades, i + 1,
                            Append(events,
                                   DarkPoolTradeSettlement(trades[i],
                                                           current_time)),
                            current_time)

\* Mutant: the handler without the check of the settlement's source.
settle_dark_pool_trades_unchecked(acc, settlement_data, current_time) ==
    Let(settle_trades_loop(acc, settlement_data.trades, 1, <<>>,
                           current_time),
        LAMBDA loop :
            IF loop.err # "Ok" THEN loop
            ELSE IF ~AddU64(acc.total_settlements,
                            Len(settlement_data.trades)).ok
                 THEN At("statistics", Return("Panic", acc, loop.events))
            ELSE At("end",
                    Return("Ok",
                           [acc EXCEPT !.total_settlements =
                                AddU64(@, Len(settlement_data.trades)).val],
                           loop.events)))

\* The handler; acc is the Darkpool account.
settle_dark_pool_trades(acc, settlement_data, current_time) ==
    IF settlement_data.darkpool # DarkpoolKey
    THEN At("darkpool", Return("InvalidSettlementData", acc, <<>>))
    ELSE Let(settle_trades_loop(acc, settlement_data.trades, 1, <<>>,
                                current_time),
             LAMBDA loop :
                 IF loop.err # "Ok" THEN loop
                 ELSE IF ~AddU64(acc.total_settlements,
                                 Len(settlement_data.trades)).ok
                      THEN At("statistics", Return("Panic", acc, loop.events))
                 ELSE At("end",
                         Return("Ok",
                                [acc EXCEPT !.total_settlements =
                                     AddU64(@, Len(settlement_data.trades)).val],
                                loop.events)))

\* The account constraints of SettleDarkPoolTrades: has_one = authority.
SettleDarkPoolTradesAccounts(acc, authority) ==
    IF acc.authority = authority THEN "Ok" ELSE "ConstraintHasOne"

settle_trades_instruction(acc, authority, settlement_data, current_time) ==
    IF SettleDarkPoolTradesAccounts(acc, authority) # "Ok"
    THEN At("accounts",
            Return(SettleDarkPoolTradesAccounts(acc, authority), acc, <<>>))
    ELSE settle_dark_pool_trades(acc, settlement_data, current_time)

\* ------------------------------------------------ match_dark_orders (circuit)
\* DarkOrder; side is a u8, 0 for a long and 1 for a short.
DarkOrder(side, size_usd, max_price, pool, custody, nonce) ==
    [owner |-> "t1", side |-> side, size_usd |-> size_usd,
     collateral_amount |-> 1, max_price |-> max_price, leverage |-> 1,
     pool |-> pool, custody |-> custody,
     collateral_custody |-> CollateralCustodyKey, timestamp |-> 0,
     nonce |-> nonce]

OrderMatch(order_a, order_b, matched_size, execution_price) ==
    [order_a |-> order_a, order_b |-> order_b, matched_size |-> matched_size,
     execution_price |-> execution_price, timestamp |-> PlaceholderTime]

\* Mutant: orders for different custodies match.
can_match_any_custody(order_a, order_b) ==
    IF order_a.side = order_b.side THEN FALSE
    ELSE IF order_a.pool # order_b.pool THEN FALSE
    ELSE IF order_a.side = 0 /\ order_b.side = 1
         THEN order_a.max_price >= order_b.max_price
    ELSE IF order_a.side = 1 /\ order_b.side = 0
         THEN order_b.max_price >= order_a.max_price
    ELSE FALSE

can_match(order_a, order_b) ==
    IF order_a.side = order_b.side THEN FALSE
    ELSE IF order_a.pool # order_b.pool \/ order_a.custody # order_b.custody
         THEN FALSE
    ELSE IF order_a.side = 0 /\ order_b.side = 1
         THEN order_a.max_price >= order_b.max_price
    ELSE IF order_a.side = 1 /\ order_b.side = 0
         THEN order_b.max_price >= order_a.max_price
    ELSE FALSE

\* (order_a.max_price + order_b.max_price) / 2, the sum in u64.
calculate_execution_price(order_a, order_b) ==
    Let(AddU64(order_a.max_price, order_b.max_price),
        LAMBDA sum : [ok |-> sum.ok, val |-> sum.val \div 2])

Min(a, b) == IF a <= b THEN a ELSE b

\* A panic of the circuit: the computation returns no result.
Aborted ==
    [err |-> "Panic", matches |-> <<>>, total_volume |-> 0, total_value |-> 0]

\* The statements under `if can_match(..)`: the match is built, the totals
\* grow and the match is pushed; st holds matches, total_volume, total_value.
record_match(st, order_a, order_b) ==
    Let(<<calculate_execution_price(order_a, order_b),
          Min(order_a.size_usd, order_b.size_usd)>>,
        LAMBDA m :
            IF ~m[1].ok THEN Aborted
            ELSE Let(<<AddU64(st.total_volume, m[2]),
                       MulU64(m[2], m[1].val)>>,
                     LAMBDA t :
                         IF ~t[1].ok \/ ~t[2].ok THEN Aborted
                         ELSE IF ~AddU64(st.total_value, t[2].val).ok
                              THEN Aborted
                         ELSE [err |-> "Ok",
                               matches |->
                                   Append(st.matches,
                                          OrderMatch(order_a, order_b,
                                                     m[2], m[1].val)),
                               total_volume |-> t[1].val,
                               total_value |->
                                   AddU64(st.total_value, t[2].val).val]))

\* Mutant: an order that is in a match is consumed.
match_pair_consuming(st, order_a, order_b) ==
    IF ~can_match(order_a, order_b) THEN st
    ELSE IF \E k \in DOMAIN st.matches :
                {st.matches[k].order_a, st.matches[k].order_b}
                    \cap {order_a, order_b} # {}
         THEN st
    ELSE record_match(st, order_a, order_b)

\* The body of the inner loop for the pair (order_a, order_b).
match_pair(st, order_a, order_b) ==
    IF ~can_match(order_a, order_b) THEN st
    ELSE record_match(st, order_a, order_b)

\* for i in 0..orders.len() { for j in (i + 1)..orders.len() { .. } }, from
\* the pair (i, j) on, with indices from 1.
RECURSIVE match_loop(_, _, _, _)
match_loop(batch, i, j, st) ==
    IF st.err # "Ok" \/ i > Len(batch) THEN st
    ELSE IF j > Len(batch) THEN match_loop(batch, i + 1, i + 2, st)
    ELSE match_loop(batch, i, j + 1, match_pair(st, batch[i], batch[j]))

\* MatchResult, with err for a computation that panicked.
match_dark_orders(batch) ==
    Let(match_loop(batch, 1, 2,
                   [err |-> "Ok", matches |-> <<>>, total_volume |-> 0,
                    total_value |-> 0]),
        LAMBDA loop :
            [err |-> loop.err,
             matches |-> loop.matches,
             total_volume |-> loop.total_volume,
             average_price |->
                 IF loop.total_volume > 0
                 THEN loop.total_value \div loop.total_volume
                 ELSE 0,
             timestamp |-> PlaceholderTime])

\* The circuit has not run.
NoResult ==
    [err |-> "None", matches |-> <<>>, total_volume |-> 0,
     average_price |-> 0, timestamp |-> 0]

\* ---------------------------------------------- batch_process_orders (circuit)
\* OrderBook::new()
OrderBookNew == [orders |-> <<>>, last_update |-> 0]

\* OrderBook::add_order
add_order(order_book, order) ==
    [orders |-> Append(order_book.orders, order),
     last_update |-> order.timestamp]

\* for order in orders { if .. { order_book.add_order(order) } }, from the
\* order at place i on.
RECURSIVE fill_order_book(_, _, _)
fill_order_book(batch, i, order_book) ==
    IF i > Len(batch) THEN order_book
    ELSE IF batch[i].size_usd > 0 /\ batch[i].collateral_amount > 0
         THEN fill_order_book(batch, i + 1, add_order(order_book, batch[i]))
    ELSE fill_order_book(batch, i + 1, order_book)

\* Mutant: every order is added to the order book.
batch_process_orders_unfiltered(batch) == match_dark_orders(batch)

\* The circuit batch_process_orders.
batch_process_orders(batch) ==
    match_dark_orders(fill_order_book(batch, 1, OrderBookNew).orders)

\* ------------------------------------------------ submit_dark_order (circuit)
\* Mutant: the validation without the cap on leverage.
submit_dark_order_uncapped(order) ==
    /\ order.size_usd > 0
    /\ order.collateral_amount > 0
    /\ order.leverage > 0
    /\ order.max_price > 0
    /\ (order.side = 0 \/ order.side = 1)

\* is_valid of the circuit submit_dark_order.
submit_dark_order(order) ==
    /\ order.size_usd > 0
    /\ order.collateral_amount > 0
    /\ order.leverage > 0
    /\ order.leverage <= MaxLeverage
    /\ order.max_price > 0
    /\ (order.side = 0 \/ order.side = 1)

\* --------------------------------------------- computations and callbacks
\* A value encrypted for its owner: the program sees a ciphertext it cannot
\* read.
Encrypt(value) == [ciphertext |-> value]

\* ComputationOutputs: Success with the circuit's output, or a failure.
Success(ciphertexts) == [status |-> "Success", ciphertexts |-> ciphertexts]

Failure == [status |-> "Failure", ciphertexts |-> <<>>]

\* No computation has been queued.
NoComputation ==
    [circuit |-> "None", input |-> <<>>, status |-> "None",
     output |-> Failure, owner |-> NoKey]

DarkOrderSubmitted(owner, computation_offset, timestamp) ==
    [event |-> "DarkOrderSubmitted", owner |-> owner,
     computation_offset |-> computation_offset, timestamp |-> timestamp]

DarkOrderValidated(owner, is_valid) ==
    [event |-> "DarkOrderValidated", owner |-> owner, is_valid |-> is_valid]

DarkOrderMatching(computation_offset, timestamp) ==
    [event |-> "DarkOrderMatching",
     computation_offset |-> computation_offset, timestamp |-> timestamp]

DarkOrdersMatched(total_matches, total_volume, average_price, timestamp) ==
    [event |-> "DarkOrdersMatched", total_matches |-> total_matches,
     total_volume |-> total_volume, average_price |-> average_price,
     timestamp |-> timestamp]

SumEvent(sum) == [event |-> "SumEvent", sum |-> sum]

\* The instruction submit_dark_order of the darkpool program; acc is the
\* Darkpool account, queued tells whether queue_computation succeeded.
darkpool_submit_dark_order(acc, owner, computation_offset, queued, current_time) ==
    IF ~AddU64(acc.total_orders, 1).ok
    THEN At("statistics", Return("Panic", acc, <<>>))
    ELSE Let([acc EXCEPT !.total_orders = AddU64(@, 1).val,
                         !.last_order_time = current_time],
             LAMBDA counted :
                 IF ~queued
                 THEN At("queue", Return("QueueFailed", counted, <<>>))
                 ELSE At("end",
                         Return("Ok", counted,
                                <<DarkOrderSubmitted(owner,
                                                     computation_offset,
                                                     current_time)>>)))

\* Mutant: a failed computation is taken as a validated order.
submit_dark_order_callback_lenient(acc, owner, output) ==
    At("end", Return("Ok", acc, <<DarkOrderValidated(owner, TRUE)>>))

\* The callback of submit_dark_order.
submit_dark_order_callback(acc, owner, output) ==
    IF output.status # "Success"
    THEN At("output", Return("OrderValidationFailed", acc, <<>>))
    ELSE IF ~(Len(output.ciphertexts) > 0)
         THEN At("validity", Return("InvalidOrderParameters", acc, <<>>))
    ELSE At("end",
            Return("Ok", acc,
                   <<DarkOrderValidated(owner,
                                        Len(output.ciphertexts) > 0)>>))

\* Mutant: the request is not counted.
darkpool_match_dark_orders_uncounted(acc, computation_offset, queued, current_time) ==
    IF ~queued
    THEN At("queue", Return("QueueFailed", acc, <<>>))
    ELSE At("end",
            Return("Ok", [acc EXCEPT !.last_match_time = current_time],
                   <<DarkOrderMatching(computation_offset, current_time)>>))

\* The instruction match_dark_orders of the darkpool program.
darkpool_match_dark_orders(acc, computation_offset, queued, current_time) ==
    IF ~AddU64(acc.total_matches, 1).ok
    THEN At("statistics", Return("Panic", acc, <<>>))
    ELSE Let([acc EXCEPT !.total_matches = AddU64(@, 1).val,
                         !.last_match_time = current_time],
             LAMBDA counted :
                 IF ~queued
                 THEN At("queue", Return("QueueFailed", counted, <<>>))
                 ELSE At("end",
                         Return("Ok", counted,
                                <<DarkOrderMatching(computation_offset,
                                                    current_time)>>)))

\* The placeholders that stand for decrypting the result.
extract_volume_from_result(match_result) == 0

extract_match_count(match_result) == 0

extract_average_price(match_result) == 0

\* The callback of match_dark_orders.
match_dark_orders_callback(acc, output, current_time) ==
    IF output.status # "Success"
    THEN At("output", Return("MatchingFailed", acc, <<>>))
    ELSE IF ~AddU64(acc.total_volume,
                    extract_volume_from_result(output.ciphertexts)).ok
         THEN At("statistics", Return("Panic", acc, <<>>))
    ELSE At("end",
            Return("Ok",
                   [acc EXCEPT !.total_volume =
                        AddU64(@, extract_volume_from_result(
                                      output.ciphertexts)).val],
                   <<DarkOrdersMatched(
                         extract_match_count(output.ciphertexts),
                         extract_volume_from_result(output.ciphertexts),
                         extract_average_price(output.ciphertexts),
                         current_time)>>))

\* The instruction add_together: it only queues the computation.
add_together(acc, queued) ==
    IF ~queued THEN At("queue", Return("QueueFailed", acc, <<>>))
    ELSE At("end", Return("Ok", acc, <<>>))

\* The callback of add_together.
add_together_callback(acc, output) ==
    IF output.status # "Success"
    THEN At("output", Return("AbortedComputation", acc, <<>>))
    ELSE At("end", Return("Ok", acc, <<SumEvent(output.ciphertexts[1])>>))

\* ---------------------------------------------------------------- inputs
TradeData(trader_a, trader_b, side_a, side_b, size_usd, price, timestamp, darkpool_signature) ==
    [trader_a |-> trader_a, trader_b |-> trader_b,
     side_a |-> side_a, side_b |-> side_b,
     size_usd |-> size_usd, price |-> price,
     pool |-> PoolKey, custody |-> CustodyKey,
     collateral_custody |-> CollateralCustodyKey,
     timestamp |-> timestamp, darkpool_signature |-> darkpool_signature]

SettleDarkPoolTradeParams(trade_data, collateral_amount_a, collateral_amount_b, max_price_slippage) ==
    [trade_data |-> trade_data,
     expected_darkpool_program |-> DarkpoolProgramKey,
     collateral_amount_a |-> collateral_amount_a,
     collateral_amount_b |-> collateral_amount_b,
     max_price_slippage |-> max_price_slippage]

\* The context of a call: oracle prices and the darkpool_program account.
Context(custody_price, collateral_price, darkpool_program) ==
    [custody_oracle |-> [ok |-> TRUE, price |-> custody_price],
     collateral_oracle |-> [ok |-> TRUE, price |-> collateral_price],
     darkpool_program |-> darkpool_program]

\* The oracle price and slippage bound of the calls that vary the trade.
RefPrice == 2
\* The deviation, in basis points, of a price one unit away from RefPrice.
RefSlippage == BpsPower \div RefPrice

\* ----------------------------------------------------------------- state
\* No batch instruction has run.
NoBatch == [instruction |-> "None", darkpool |-> NoKey, authority |-> NoKey, trades |-> <<>>, time |-> 0]

InitAccounts ==
    [positions |-> [k \in PosKeys |-> EmptyPosition],
     funding |-> [t \in Traders |-> InitFunds],
     vault |-> 0, volume_usd |-> 0]

\* The slots of the transactions in flight: two settlements at a time.
TxIds == {1, 2}

\* The parameters of no call.
NoParams ==
    SettleDarkPoolTradeParams(
        TradeData(NoKey, NoKey, "None", "None", 0, 0, 0, "zero"), 0, 0, 0)

\* A slot no transaction has been issued in.
IdleTx ==
    [phase |-> "idle", params |-> NoParams, read |-> InitAccounts,
     err |-> "None"]

\* settle_dark_pool_trade has not been called.
NoRequest == [params |-> NoParams, ctx |-> Context(0, 0, NoKey), time |-> 0]

Init ==
    /\ positions = InitAccounts.positions
    /\ funding = InitAccounts.funding
    /\ vault = 0
    /\ volume_usd = 0
    /\ inflight = [id \in TxIds |-> IdleTx]
    /\ base = InitAccounts
    /\ request = NoRequest
    /\ orders = <<>>
    /\ result = NoResult
    /\ computation = NoComputation
    /\ now = MaxTradeAge
    /\ overflow_checks \in BOOLEAN
    /\ outcome = [instruction |-> "None", err |-> "None", at |-> ""]
    /\ emitted = <<>>
    /\ settled = <<>>
    /\ darkpool = initialize_darkpool
    /\ submitted = NoBatch

\* The instruction settle_dark_pool_trade with the given parameters.
SettleCall(params, ctx) ==
    \E ret \in {settle_instruction(Accounts, params, ctx, now)} :
    \E after \in {Committed(Accounts, ret)} :
        /\ positions' = after.positions
        /\ funding' = after.funding
        /\ vault' = after.vault
        /\ volume_usd' = after.volume_usd
        /\ outcome' = [instruction |-> "settle_dark_pool_trade",
                       err |-> ret.err, at |-> ret.at]
        /\ emitted' = ret.events
        /\ settled' = IF ret.err = "Ok"
                      THEN Append(settled, [params |-> params, time |-> now])
                      ELSE settled
        /\ request' = [params |-> params, ctx |-> ctx, time |-> now]
        /\ UNCHANGED <<orders, result, computation, now, overflow_checks, darkpool, submitted, inflight,
                       base>>

\* Settlements that vary the traders, the sides and the collateral.
Settle ==
    /\ Len(settled) < MaxSettles
    /\ \E trader_a \in Traders, trader_b \in Traders, side_a \in Sides,
          collateral \in {<<0, 0>>, <<InitFunds, InitFunds>>} :
       \E side_b \in Sides \ {side_a} :
          SettleCall(
              SettleDarkPoolTradeParams(
                  TradeData(trader_a, trader_b, side_a, side_b, 1,
                            RefPrice + 1, now, "authority"),
                  collateral[1], collateral[2], RefSlippage),
              Context(RefPrice, 1, DarkpoolProgramKey))

\* Settlements that vary the size, the price and the collateral price.
SettleSized ==
    /\ Len(settled) < MaxSettles
    /\ \E size_usd \in {2, U64Max}, price \in {RefPrice - 1, RefPrice},
          collateral_price \in {1, U64Max} :
          SettleCall(
              SettleDarkPoolTradeParams(
                  TradeData("t1", "t2", "Long", "Short", size_usd, price,
                            now, "authority"),
                  1, 0, RefSlippage),
              Context(RefPrice, collateral_price, DarkpoolProgramKey))

\* Settlements that vary what verify_darkpool_signature reads, and the size.
SettleGuarded ==
    /\ \E size_usd \in {0, 1},
          timestamp \in {I64Min, now - MaxTradeAge, now - MaxTradeAge + 1,
                         now},
          darkpool_signature \in Signatures :
          SettleCall(
              SettleDarkPoolTradeParams(
                  TradeData("t1", "t2", "Long", "Short", size_usd, RefPrice,
                            timestamp, darkpool_signature),
                  0, 0, RefSlippage),
              Context(RefPrice, 1, DarkpoolProgramKey))
    /\ Len(settled') <= MaxGuarded

\* Settlements that vary what the parameter checks read.
SettleChecked ==
    /\ \E side_b \in Sides, size_usd \in {0, 1}, price \in {0, RefPrice},
          darkpool_signature \in {"zero", "authority"} :
          SettleCall(
              SettleDarkPoolTradeParams(
                  TradeData("t1", "t2", "Long", side_b, size_usd, price, now,
                            darkpool_signature),
                  0, 0, RefSlippage),
              Context(RefPrice, 1, DarkpoolProgramKey))
    /\ Len(settled') <= MaxGuarded

\* Settlements that vary what the slippage check reads.
SettleSlippage ==
    /\ \E price \in {RefPrice - 1, RefPrice, RefPrice + 1, RefPrice + 2},
          max_price_slippage \in {0, RefSlippage - 1, RefSlippage},
          custody_price \in {0, RefPrice} :
          SettleCall(
              SettleDarkPoolTradeParams(
                  TradeData("t1", "t2", "Long", "Short", 1, price, now,
                            "authority"),
                  0, 0, max_price_slippage),
              Context(custody_price, 1, DarkpoolProgramKey))
    /\ Len(settled') <= MaxGuarded

\* Settlements that vary the darkpool_program account of the context.
SettleSource ==
    /\ \E darkpool_program \in {DarkpoolProgramKey, NoKey, "t1"} :
          SettleCall(
              SettleDarkPoolTradeParams(
                  TradeData("t1", "t2", "Long", "Short", 1, RefPrice, now,
                            "authority"),
                  InitFunds, 0, RefSlippage),
              Context(RefPrice, 1, darkpool_program))
    /\ Len(settled') <= MaxGuarded

\* The instants the clock is read at: the start, and MaxTradeAge later.
Times == {MaxTradeAge, 2 * MaxTradeAge}

\* The clock advances.
Tick ==
    /\ \E t \in Times : t > now /\ now' = t
    /\ UNCHANGED <<orders, result, computation, positions, funding, vault, volume_usd, overflow_checks,
                   outcome, emitted, settled, darkpool, submitted, inflight,
                   base, request>>

Next == Settle \/ SettleSized \/ Tick

Spec == Init /\ [][Next]_vars

\* Repeated fills of the same two positions, at prices around the oracle
\* price and with sizes of which three fit in a u64 and four do not.
SettleFill ==
    /\ Len(settled) < MaxFills
    /\ \E size_usd \in {1, 2, U64 \div 3},
          price \in {RefPrice - 1, RefPrice, RefPrice + 1} :
          SettleCall(
              SettleDarkPoolTradeParams(
                  TradeData("t1", "t2", "Long", "Short", size_usd, price,
                            now, "authority"),
                  0, 0, RefSlippage),
              Context(RefPrice, 1, DarkpoolProgramKey))

NextFills == SettleFill

SpecFills == Init /\ [][NextFills]_vars

\* A position opened by one settlement and then increased by a second, both
\* with prices and sizes up to the ends of the u64 range; the oracle price
\* is the trade's price.
AvgValues == {1, 100, 200, U64 \div 2, U64Max - 1, U64Max}

AvgParams(price, size_usd, timestamp) ==
    SettleDarkPoolTradeParams(
        TradeData("t1", "t2", "Long", "Short", size_usd, price, timestamp,
                  "authority"),
        0, 0, 0)

InitAvg ==
    /\ overflow_checks \in BOOLEAN
    /\ orders = <<>>
    /\ result = NoResult
    /\ computation = NoComputation
    /\ now = MaxTradeAge
    /\ darkpool = initialize_darkpool
    /\ submitted = NoBatch
    /\ \E price \in AvgValues, size_usd \in AvgValues :
          \E ret \in {settle_instruction(
                           InitAccounts, AvgParams(price, size_usd, now),
                           Context(price, 1, DarkpoolProgramKey), now)} :
              /\ ret.err = "Ok"
              /\ inflight = [id \in TxIds |-> IdleTx]
              /\ base = ret.acc
              /\ request = [params |-> AvgParams(price, size_usd, now),
                            ctx |-> Context(price, 1, DarkpoolProgramKey),
                            time |-> now]
              /\ positions = ret.acc.positions
              /\ funding = ret.acc.funding
              /\ vault = ret.acc.vault
              /\ volume_usd = ret.acc.volume_usd
              /\ outcome = [instruction |-> "settle_dark_pool_trade",
                            err |-> ret.err, at |-> ret.at]
              /\ emitted = ret.events
              /\ settled = <<[params |-> AvgParams(price, size_usd, now),
                              time |-> now]>>

SettleAvg ==
    /\ Len(settled) < 2
    /\ \E price \in AvgValues, size_usd \in AvgValues :
          SettleCall(AvgParams(price, size_usd, now),
                     Context(price, 1, DarkpoolProgramKey))

NextAvg == SettleAvg

SpecAvg == InitAvg /\ [][NextAvg]_vars

\* The trade record with the given pool, custody and collateral_custody.
WithKeys(params, pool, custody, collateral_custody) ==
    [params EXCEPT !.trade_data.pool = pool,
                   !.trade_data.custody = custody,
                   !.trade_data.collateral_custody = collateral_custody]

\* The keys a trade record names as pool, custody and collateral_custody:
\* those of the supplied accounts, and others.
TradeKeys ==
    {PoolKey, OtherPoolKey} \X {CustodyKey, CollateralCustodyKey}
        \X {CollateralCustodyKey, NoKey}

\* Settlements that vary the pool, custody and collateral_custody of the
\* trade record, the sides and the collateral; the accounts are the same.
SettleFields ==
    /\ Len(settled) < MaxSettles
    /\ \E keys \in {<<PoolKey, CustodyKey, CollateralCustodyKey>>,
                    <<OtherPoolKey, CustodyKey, CollateralCustodyKey>>,
                    <<PoolKey, CollateralCustodyKey, NoKey>>,
                    <<OtherPoolKey, CollateralCustodyKey, NoKey>>},
          side_a \in Sides, collateral \in {0, InitFunds} :
       \E side_b \in Sides \ {side_a} :
          SettleCall(
              WithKeys(
                  SettleDarkPoolTradeParams(
                      TradeData("t1", "t2", side_a, side_b, 1, RefPrice,
                                now, "authority"),
                      collateral, 0, RefSlippage),
                  keys[1], keys[2], keys[3]),
              Context(RefPrice, 1, DarkpoolProgramKey))

NextFields == SettleFields

SpecFields == Init /\ [][NextFields]_vars

\* The guards: every settlement is one that varies what a guard reads.
NextGuard == SettleGuarded \/ SettleChecked \/ SettleSlippage \/ SettleSource

SpecGuard == Init /\ [][NextGuard]_vars

\* ---------------------------------------------------------------- batches
\* The sequences over S of length at most n.
SeqsUpTo(S, n) == UNION {[1..m -> S] : m \in 0..n}

\* The trades of a batch: two that pass verify_darkpool_signature, a stale
\* one and an unsigned one.
BatchTrades ==
    {TradeData("t1", "t2", "Long", "Short", kind[1], RefPrice, kind[2],
               kind[3]) :
        kind \in {<<1, now, "authority">>, <<2, now, "authority">>,
                  <<1, now - MaxTradeAge, "authority">>,
                  <<1, now, "zero">>}}

\* The instruction batch_settle_dark_pool_trades of the perpetuals program.
BatchSettle ==
    \E trades \in SeqsUpTo(BatchTrades, MaxBatch) :
    \E ret \in {batch_settle_dark_pool_trades(
                     Accounts,
                     [trades |-> trades,
                      expected_darkpool_program |-> DarkpoolProgramKey],
                     now)} :
        /\ outcome' = [instruction |-> "batch_settle_dark_pool_trades",
                       err |-> ret.err, at |-> ret.at]
        /\ emitted' = ret.events
        /\ submitted' = [instruction |-> "batch_settle_dark_pool_trades",
                         darkpool |-> NoKey, authority |-> NoKey,
                         trades |-> trades, time |-> now]
        /\ UNCHANGED <<orders, result, computation, positions, funding, vault, volume_usd, now,
                       overflow_checks, settled, darkpool, inflight, base,
                       request>>

TradeSettlement(trader_a, trader_b, size_usd, price) ==
    [trader_a |-> trader_a, trader_b |-> trader_b, size_usd |-> size_usd,
     price |-> price, pool |-> PoolKey, custody |-> CustodyKey]

\* The trades of a settlement: two that pass the checks, one without a size
\* and one without a price.
SettlementTrades ==
    {TradeSettlement("t1", "t2", kind[1], kind[2]) :
        kind \in {<<1, RefPrice>>, <<2, RefPrice>>, <<0, RefPrice>>,
                  <<1, 0>>}}

\* The instruction settle_dark_pool_trades of the darkpool program, called
\* with the settlement's darkpool and the signing authority.
SettleTradesCall(trades, signer) ==
    \E ret \in {settle_trades_instruction(
                     darkpool, signer[2],
                     [darkpool |-> signer[1], trades |-> trades], now)} :
        /\ darkpool' = Committed(darkpool, ret)
        /\ outcome' = [instruction |-> "settle_dark_pool_trades",
                       err |-> ret.err, at |-> ret.at]
        /\ emitted' = ret.events
        /\ submitted' = [instruction |-> "settle_dark_pool_trades",
                         darkpool |-> signer[1], authority |-> signer[2],
                         trades |-> trades, time |-> now]
        /\ UNCHANGED <<orders, result, computation, positions, funding, vault, volume_usd, now,
                       overflow_checks, settled, inflight, base, request>>

SettleTrades ==
    /\ darkpool.total_settlements < MaxSettlementCount
    /\ \E trades \in SeqsUpTo(SettlementTrades, MaxBatch),
          signer \in {<<DarkpoolKey, AuthorityKey>>, <<NoKey, AuthorityKey>>,
                      <<DarkpoolKey, "t1">>} :
          SettleTradesCall(trades, signer)

\* Settlements that name the darkpool account, no darkpool or another
\* account, signed by the authority or by someone else.
SettleTradesSource ==
    /\ darkpool.total_settlements < MaxSettlementCount
    /\ \E trades \in {<<>>,
                       <<TradeSettlement("t1", "t2", 1, RefPrice)>>,
                       <<TradeSettlement("t1", "t2", 1, RefPrice),
                         TradeSettlement("t1", "t2", 0, RefPrice)>>},
          settlement_darkpool \in {DarkpoolKey, NoKey, PoolKey},
          authority \in {AuthorityKey, "t1"} :
          SettleTradesCall(trades, <<settlement_darkpool, authority>>)

NextBatch == BatchSettle \/ SettleTrades

SpecBatch == Init /\ [][NextBatch]_vars

\* Both settlement instructions, called with the right and with a wrong
\* source.
NextSource == SettleSource \/ SettleTradesSource

SpecSource == Init /\ [][NextSource]_vars

\* ------------------------------------------------------------- matching
\* Orders of a pair: any side byte, either pool, either custody, two limits.
PairOrders ==
    {<<side, 50, max_price, pool, custody>> :
        side \in {0, 1, 2}, max_price \in {100, 110},
        pool \in {PoolKey, OtherPoolKey},
        custody \in {CustodyKey, CollateralCustodyKey}}

\* Orders of a batch on one pool and custody: longs and shorts of two sizes
\* and two limits, and a long and a short at the largest u64 limit.
BatchOrders ==
    {<<side, size_usd, max_price, PoolKey, CustodyKey>> :
        side \in {0, 1}, size_usd \in {50, 80}, max_price \in {100, 110}}
    \cup {<<side, 1, U64 - 1, PoolKey, CustodyKey>> : side \in {0, 1}}

\* The batch of the given orders; nonce is the place in the batch.
Batch(kinds) ==
    [i \in 1..Len(kinds) |->
        DarkOrder(kinds[i][1], kinds[i][2], kinds[i][3], kinds[i][4],
                  kinds[i][5], i)]

\* A long and a short that pass the validation, each of them also without
\* size and without collateral, and the short without limit, without
\* leverage and with a leverage above the cap.
FlawedOrders ==
    {[DarkOrder(kind[1], kind[2], kind[4], PoolKey, CustodyKey, 0)
        EXCEPT !.collateral_amount = kind[3], !.leverage = kind[5]] :
        kind \in {<<0, 50, 1, 100, 1>>, <<0, 0, 1, 100, 1>>,
                  <<0, 50, 0, 100, 1>>, <<1, 50, 1, 100, 1>>,
                  <<1, 0, 1, 100, 1>>, <<1, 50, 0, 100, 1>>,
                  <<1, 50, 1, 0, 1>>, <<1, 50, 1, 100, 0>>,
                  <<1, 50, 1, 100, MaxLeverage + 1>>}}

\* The batch of the given orders; nonce is the place in the batch.
Numbered(batch) ==
    [i \in 1..Len(batch) |-> [batch[i] EXCEPT !.nonce = i]]

MatchBatches ==
    {Batch(kinds) : kinds \in [1..2 -> PairOrders]}
    \cup {Batch(kinds) : kinds \in SeqsUpTo(BatchOrders, MaxOrders)}
    \cup {Numbered(batch) : batch \in SeqsUpTo(FlawedOrders, MaxOrders)}

InitMatch ==
    /\ positions = InitAccounts.positions
    /\ funding = InitAccounts.funding
    /\ vault = 0
    /\ volume_usd = 0
    /\ inflight = [id \in TxIds |-> IdleTx]
    /\ base = InitAccounts
    /\ request = NoRequest
    /\ now = MaxTradeAge
    /\ overflow_checks \in BOOLEAN
    /\ outcome = [instruction |-> "None", err |-> "None", at |-> ""]
    /\ emitted = <<>>
    /\ settled = <<>>
    /\ darkpool = initialize_darkpool
    /\ submitted = NoBatch
    /\ orders \in MatchBatches
    /\ result = NoResult
    /\ computation = NoComputation

\* The circuit match_dark_orders, run once on the batch.
MatchDarkOrders ==
    /\ result = NoResult
    /\ result' = match_dark_orders(orders)
    /\ UNCHANGED <<positions, funding, vault, volume_usd, now,
                   overflow_checks, outcome, emitted, settled, darkpool,
                   submitted, inflight, base, request, orders,
                   computation>>

NextMatch == MatchDarkOrders

SpecMatch == InitMatch /\ [][NextMatch]_vars

\* The circuit batch_process_orders, run once on the batch.
BatchProcessOrders ==
    /\ result = NoResult
    /\ result' = batch_process_orders(orders)
    /\ UNCHANGED <<positions, funding, vault, volume_usd, now,
                   overflow_checks, outcome, emitted, settled, darkpool,
                   submitted, inflight, base, request, orders,
                   computation>>

NextProcess == BatchProcessOrders

SpecProcess == InitMatch /\ [][NextProcess]_vars

\* ------------------------------------------------- darkpool computations
\* Orders submitted for validation: each field at, below and above what
\* the validation allows.
SubmittedOrders ==
    {[DarkOrder(side, size_usd, max_price, PoolKey, CustodyKey, 1)
        EXCEPT !.collateral_amount = collateral_amount,
               !.leverage = leverage] :
        side \in {0, 1, 2}, size_usd \in {0, 1}, max_price \in {0, 1},
        collateral_amount \in {0, 1},
        leverage \in {0, 1, MaxLeverage, MaxLeverage + 1}}

\* Batches queued for matching: none, a long and a short that match, and a
\* long and a short whose limits add up to more than a u64.
QueuedBatches ==
    {<<>>,
     Batch(<<<<0, 50, 110, PoolKey, CustodyKey>>,
             <<1, 80, 100, PoolKey, CustodyKey>>>>),
     Batch(<<<<0, 1, U64 - 1, PoolKey, CustodyKey>>,
             <<1, 1, U64 - 1, PoolKey, CustodyKey>>>>)}

\* A computation is queued by the instruction of the same name.
Queue(circuit, input, owner, ret) ==
    /\ darkpool' = Committed(darkpool, ret)
    /\ outcome' = [instruction |-> circuit, err |-> ret.err, at |-> ret.at]
    /\ emitted' = ret.events
    /\ computation' =
           IF ret.err = "Ok"
           THEN [circuit |-> circuit, input |-> input, status |-> "Queued",
                 output |-> Failure, owner |-> owner]
           ELSE computation
    /\ UNCHANGED <<positions, funding, vault, volume_usd, now,
                   overflow_checks, settled, submitted, inflight, base,
                   request, orders, result>>

\* No computation is waiting for its result or its callback.
Idle == computation.status \in {"None", "Delivered"}

SubmitDarkOrder ==
    /\ Idle
    /\ darkpool.total_orders + darkpool.total_matches < MaxQueued
    /\ \E order \in SubmittedOrders, queued \in BOOLEAN :
          Queue("submit_dark_order", order, "t1",
                darkpool_submit_dark_order(darkpool, "t1", 1, queued, now))

QueueMatchDarkOrders ==
    /\ Idle
    /\ darkpool.total_orders + darkpool.total_matches < MaxQueued
    /\ \E batch \in QueuedBatches, queued \in BOOLEAN :
          Queue("match_dark_orders", batch, "t1",
                darkpool_match_dark_orders(darkpool, 1, queued, now))

AddTogether ==
    /\ Idle
    /\ darkpool.total_orders + darkpool.total_matches < MaxQueued
    /\ \E queued \in BOOLEAN :
          Queue("add_together", <<1, 1>>, "t1",
                add_together(darkpool, queued))

\* What the circuit of the queued computation returns when it completes;
\* the circuit add_together is not part of the sources, its ciphertext is
\* left opaque.
CircuitOutput ==
    IF computation.circuit = "submit_dark_order"
    THEN Success(<<Encrypt(submit_dark_order(computation.input))>>)
    ELSE IF computation.circuit = "match_dark_orders"
         THEN IF match_dark_orders(computation.input).err = "Ok"
              THEN Success(<<Encrypt(match_dark_orders(computation.input))>>)
              ELSE Failure
    ELSE Success(<<Encrypt("sum")>>)

\* The cluster runs the queued computation: it completes, or it is aborted.
Execute ==
    /\ computation.status = "Queued"
    /\ \E output \in {CircuitOutput, Failure} :
          computation' = [computation EXCEPT !.status = output.status,
                                             !.output = output]
    /\ UNCHANGED <<positions, funding, vault, volume_usd, now,
                   overflow_checks, outcome, emitted, settled, darkpool,
                   submitted, inflight, base, request, orders, result>>

\* What the callback of the queued computation returns.
CallbackReturn ==
    IF computation.circuit = "submit_dark_order"
    THEN submit_dark_order_callback(darkpool, computation.owner,
                                    computation.output)
    ELSE IF computation.circuit = "match_dark_orders"
         THEN match_dark_orders_callback(darkpool, computation.output, now)
    ELSE add_together_callback(darkpool, computation.output)

\* The cluster reports the outcome to the callback instruction.
Callback ==
    /\ computation.status \in {"Success", "Failure"}
    /\ \E ret \in {CallbackReturn} :
          /\ darkpool' = Committed(darkpool, ret)
          /\ outcome' = [instruction |-> "callback", err |-> ret.err,
                         at |-> ret.at]
          /\ emitted' = ret.events
    /\ computation' = [computation EXCEPT !.status = "Delivered"]
    /\ UNCHANGED <<positions, funding, vault, volume_usd, now,
                   overflow_checks, settled, submitted, inflight, base,
                   request, orders, result>>

\* The submission of an order that passes the validation, and of one that
\* does not.
SubmitCounted ==
    /\ Idle
    /\ darkpool.total_orders + darkpool.total_matches < MaxQueued
    /\ \E size_usd \in {0, 1}, queued \in BOOLEAN :
          Queue("submit_dark_order",
                DarkOrder(0, size_usd, 1, PoolKey, CustodyKey, 1), "t1",
                darkpool_submit_dark_order(darkpool, "t1", 1, queued, now))

\* Every instruction that writes the Darkpool account, and the cluster.
NextCounters ==
    SubmitCounted \/ QueueMatchDarkOrders \/ Execute \/ Callback
        \/ SettleTradesSource

SpecCounters == Init /\ [][NextCounters]_vars

NextDarkpool ==
    SubmitDarkOrder \/ QueueMatchDarkOrders \/ AddTogether \/ Execute
        \/ Callback

SpecDarkpool == Init /\ [][NextDarkpool]_vars

\* ------------------------------------------------------------ concurrency
\* Settlement transactions in flight.  The runtime loads the accounts of a
\* transaction, runs the instruction on them and stores the accounts the
\* instruction may write; it holds a write lock on every account the
\* context declares `mut` from the load to the store.

\* The accounts of SettleDarkPoolTrade declared `mut` that the handler
\* writes, for the given parameters.
Writable(params) ==
    {<<"pool", params.trade_data.pool>>,
     <<"custody", params.trade_data.custody>>,
     <<"collateral_custody", params.trade_data.collateral_custody>>,
     <<"position", PositionKey(params.trade_data.trader_a,
                               params.trade_data.side_a)>>,
     <<"position", PositionKey(params.trade_data.trader_b,
                               params.trade_data.side_b)>>,
     <<"funding_account", params.trade_data.trader_a>>,
     <<"funding_account", params.trade_data.trader_b>>,
     <<"collateral_custody_token_account",
       params.trade_data.collateral_custody>>}

\* Mutant: no account is locked.
Conflicts_none(params, other) == FALSE

\* Two transactions cannot run at once: both write-lock some account.
Conflicts(params, other) == Writable(params) \cap Writable(other) # {}

OtherTrader(trader) == CHOOSE t \in Traders : t # trader
OppositeSide(side) == CHOOSE x \in Sides : x # side

\* The settlements in flight: trader_a takes side_a with the other trader
\* opposite, at a price that goes with the size.
ConcParams(trader_a, side_a, size_usd, collateral_amount_a) ==
    SettleDarkPoolTradeParams(
        TradeData(trader_a, OtherTrader(trader_a), side_a,
                  OppositeSide(side_a), size_usd, RefPrice + size_usd - 1,
                  MaxTradeAge, "authority"),
        collateral_amount_a, 0, RefSlippage)

ConcContext == Context(RefPrice, 1, DarkpoolProgramKey)

\* The start: no position, or the positions one settlement has opened.
InitConc ==
    /\ overflow_checks \in BOOLEAN
    /\ now = MaxTradeAge
    /\ darkpool = initialize_darkpool
    /\ submitted = NoBatch
    /\ inflight = [id \in TxIds |-> IdleTx]
    /\ request = NoRequest
    /\ orders = <<>>
    /\ result = NoResult
    /\ computation = NoComputation
    /\ outcome = [instruction |-> "None", err |-> "None", at |-> ""]
    /\ emitted = <<>>
    /\ \E opened \in SeqsUpTo({ConcParams("t1", "Long", 1, 0)}, 1) :
       \E acc \in {IF opened = <<>> THEN InitAccounts
                    ELSE Committed(InitAccounts,
                                   settle_instruction(InitAccounts, opened[1],
                                                      ConcContext, now))} :
           /\ positions = acc.positions
           /\ funding = acc.funding
           /\ vault = acc.vault
           /\ volume_usd = acc.volume_usd
           /\ base = acc
           /\ settled = [i \in 1..Len(opened) |->
                             [params |-> opened[i], time |-> now]]

\* A client sends a settlement transaction.
Issue(id) ==
    /\ inflight[id].phase = "idle"
    /\ \E trader_a \in Traders, side_a \in Sides, size_usd \in {1, 2},
          collateral_amount_a \in {0, InitFunds} :
          inflight' = [inflight EXCEPT ![id] =
                          [@ EXCEPT !.phase = "issued",
                                    !.params = ConcParams(trader_a, side_a,
                                                          size_usd,
                                                          collateral_amount_a)]]
    /\ UNCHANGED <<orders, result, computation, positions, funding, vault, volume_usd, now,
                   overflow_checks, outcome, emitted, settled, darkpool,
                   submitted, base, request>>

\* The runtime locks the writable accounts of the transaction and loads them.
Load(id) ==
    /\ inflight[id].phase = "issued"
    /\ \A other \in TxIds \ {id} :
           inflight[other].phase = "loaded"
               => ~Conflicts(inflight[id].params, inflight[other].params)
    /\ inflight' = [inflight EXCEPT ![id] =
                        [@ EXCEPT !.phase = "loaded", !.read = Accounts]]
    /\ UNCHANGED <<orders, result, computation, positions, funding, vault, volume_usd, now,
                   overflow_checks, outcome, emitted, settled, darkpool,
                   submitted, base, request>>

\* The instruction runs on the loaded accounts; the runtime stores the
\* writable accounts and releases the locks.
Store(id) ==
    /\ inflight[id].phase = "loaded"
    /\ \E params \in {inflight[id].params} :
       \E ret \in {settle_instruction(inflight[id].read, params, ConcContext,
                                       now)} :
       \E after \in {Committed(inflight[id].read, ret)} :
       \E key_a \in {PositionKey(params.trade_data.trader_a,
                                  params.trade_data.side_a)},
          key_b \in {PositionKey(params.trade_data.trader_b,
                                  params.trade_data.side_b)} :
           /\ positions' = [positions EXCEPT
                                ![key_a] = after.positions[key_a],
                                ![key_b] = after.positions[key_b]]
           /\ funding' = [funding EXCEPT
                              ![params.trade_data.trader_a] =
                                  after.funding[params.trade_data.trader_a],
                              ![params.trade_data.trader_b] =
                                  after.funding[params.trade_data.trader_b]]
           /\ vault' = after.vault
           /\ volume_usd' = after.volume_usd
           /\ outcome' = [instruction |-> "settle_dark_pool_trade",
                          err |-> ret.err, at |-> ret.at]
           /\ emitted' = ret.events
           /\ settled' = IF ret.err = "Ok"
                         THEN Append(settled, [params |-> params, time |-> now])
                         ELSE settled
           /\ inflight' = [inflight EXCEPT ![id] =
                               [@ EXCEPT !.phase = "done", !.err = ret.err]]
    /\ request' = [params |-> inflight[id].params, ctx |-> ConcContext,
                    time |-> now]
    /\ UNCHANGED <<orders, result, computation, now, overflow_checks, darkpool, submitted, base>>

NextConc == \E id \in TxIds : Issue(id) \/ Load(id) \/ Store(id)

SpecConc == InitConc /\ [][NextConc]_vars

\* ================================================================ claims

\* C1: a settlement in which the collateral transfer of either leg fails
\* leaves both positions, both funding accounts, the vault balance and the
\* custody volume statistic as they were; leg A is not committed when leg
\* B's transfer fails.
C1_AllOrNothing ==
    [][outcome'.err = "TransferFailed"
       => UNCHANGED <<positions, funding, vault, volume_usd>>]_vars

\* Leg B's transfer failed after leg A had been applied in memory.
C1_Witness == outcome.err = "TransferFailed" /\ outcome.at = "leg_b"

\* The position keys of the two legs of a settled trade.
KeyA(entry) == PositionKey(entry.params.trade_data.trader_a,
                           entry.params.trade_data.side_a)
KeyB(entry) == PositionKey(entry.params.trade_data.trader_b,
                           entry.params.trade_data.side_b)

\* The settlements before the n-th that touched position k.
EarlierOn(k, n) ==
    {i \in 1..(n - 1) : KeyA(settled[i]) = k \/ KeyB(settled[i]) = k}

\* C2: the same trade record (traders, sides, size, price, timestamp,
\* signature) is applied successfully at most once.
C2_ConsumedOnce ==
    \A i, j \in 1..Len(settled) :
        settled[i].params.trade_data = settled[j].params.trade_data => i = j

\* C3: no trade whose signature the matching authority did not produce
\* reaches the position update.
C3_Authentic ==
    \A i \in 1..Len(settled) :
        settled[i].params.trade_data.darkpool_signature = "authority"

\* The leg of the last settlement on position k with the given side and
\* collateral opened it with the trade's price and size at the settlement
\* time.
OpenedAs(k, entry, side, collateral_amount) ==
    /\ positions[k].price = entry.params.trade_data.price
    /\ positions[k].size_usd = entry.params.trade_data.size_usd
    /\ positions[k].side = side
    /\ positions[k].collateral_amount = collateral_amount
    /\ positions[k].open_time = entry.time
    /\ positions[k].update_time = entry.time

\* C7: a settlement into an empty position sets, for each leg, price, size,
\* side, collateral_amount from the trade and the leg's arguments, and
\* open_time = update_time = the settlement time.  (Stated of the last
\* settlement: nothing else writes a position.)
C7_OpenPosition ==
    Len(settled) > 0 =>
        LET n == Len(settled)
            entry == settled[n]
        IN  /\ EarlierOn(KeyA(entry), n) = {}
               => OpenedAs(KeyA(entry), entry,
                           entry.params.trade_data.side_a,
                           entry.params.collateral_amount_a)
            /\ EarlierOn(KeyB(entry), n) = {}
               => OpenedAs(KeyB(entry), entry,
                           entry.params.trade_data.side_b,
                           entry.params.collateral_amount_b)

\* A second settlement, at a later time and with collateral, opened both of
\* its positions.
C7_Witness ==
    /\ Len(settled) = 2
    /\ settled[2].time > settled[1].time
    /\ EarlierOn(KeyA(settled[2]), 2) = {}
    /\ EarlierOn(KeyB(settled[2]), 2) = {}
    /\ settled[2].params.collateral_amount_b > 0

\* C8: a non-empty position's owner, pool, custody and side are those of
\* its key.
C8_OwnerMatchesKey ==
    \A k \in PosKeys :
        positions[k].size_usd > 0 =>
            /\ positions[k].owner = k[1]
            /\ positions[k].pool = k[2]
            /\ positions[k].custody = k[3]
            /\ positions[k].side = k[4]

\* C10: size_usd, collateral_amount and collateral_usd of a position never
\* decrease, and a position with size_usd > 0 keeps size_usd > 0.
C10_Monotone ==
    [][\A k \in PosKeys :
          /\ positions'[k].size_usd >= positions[k].size_usd
          /\ positions'[k].collateral_amount >= positions[k].collateral_amount
          /\ positions'[k].collateral_usd >= positions[k].collateral_usd]_vars

\* The fills <<price, size>> settled into position k, in settlement order.
RECURSIVE FillsUpTo(_, _)
FillsUpTo(k, n) ==
    IF n = 0 THEN <<>>
    ELSE IF KeyA(settled[n]) = k \/ KeyB(settled[n]) = k
         THEN Append(FillsUpTo(k, n - 1),
                     <<settled[n].params.trade_data.price,
                       settled[n].params.trade_data.size_usd>>)
         ELSE FillsUpTo(k, n - 1)

Fills(k) == FillsUpTo(k, Len(settled))

RECURSIVE SumSizes(_)
SumSizes(fills) ==
    IF fills = <<>> THEN 0
    ELSE SumSizes(SubSeq(fills, 1, Len(fills) - 1)) + fills[Len(fills)][2]

RECURSIVE SumValues(_)
SumValues(fills) ==
    IF fills = <<>> THEN 0
    ELSE SumValues(SubSeq(fills, 1, Len(fills) - 1))
         + fills[Len(fills)][1] * fills[Len(fills)][2]

\* floor(sum p_i * s_i / sum s_i): the volume-weighted average of all fills.
ExactAverage(fills) == SumValues(fills) \div SumSizes(fills)

\* The floor average taken fill by fill: p_1, then
\* floor((previous * S_(i-1) + p_i * s_i) / S_i).
RECURSIVE RunningAverage(_)
RunningAverage(fills) ==
    IF Len(fills) = 1 THEN fills[1][1]
    ELSE LET earlier == SubSeq(fills, 1, Len(fills) - 1)
             last == fills[Len(fills)]
         IN  (RunningAverage(earlier) * SumSizes(earlier) + last[1] * last[2])
             \div (SumSizes(earlier) + last[2])

C5_WeightedAverage ==
    [][\A k \in PosKeys :
          (/\ Len(settled') = Len(settled) + 1
           /\ k \in {KeyA(settled'[Len(settled')]),
                     KeyB(settled'[Len(settled')])}
           /\ positions[k].size_usd > 0
           /\ positions[k].size_usd
              + settled'[Len(settled')].params.trade_data.size_usd < U64)
          => LET trade == settled'[Len(settled')].params.trade_data
                 old == positions[k]
             IN  /\ positions'[k].size_usd = old.size_usd + trade.size_usd
                 /\ positions'[k].price =
                        (old.price * old.size_usd
                         + trade.price * trade.size_usd)
                        \div (old.size_usd + trade.size_usd)
                 /\ (old.price = 100 /\ old.size_usd = 100
                     /\ trade.price = 200 /\ trade.size_usd = 100)
                    => (positions'[k].size_usd = 200
                        /\ positions'[k].price = 150)]_vars

\* A second fill whose products do not fit in 64 bits was averaged in.
C5_Witness ==
    /\ Len(settled) = 2
    /\ settled[1].params.trade_data.price
       * settled[1].params.trade_data.size_usd >= U64
    /\ settled[2].params.trade_data.price
       * settled[2].params.trade_data.size_usd >= U64
    /\ positions[KeyA(settled[2])].size_usd =
           settled[1].params.trade_data.size_usd
           + settled[2].params.trade_data.size_usd

\* The elements of a sequence.
Range(seq) == {seq[i] : i \in 1..Len(seq)}

\* Trade i of the last batch passes the checks its instruction makes on a
\* trade.
BatchTradeValid(batch, i) ==
    IF batch.instruction = "batch_settle_dark_pool_trades"
    THEN verify_darkpool_signature(batch.trades[i], batch.time) = "Ok"
    ELSE validate_trade(batch.trades[i]) = "Ok"

\* The event the batch instruction emits for trade i.
BatchTradeEvent(batch, i) ==
    IF batch.instruction = "batch_settle_dark_pool_trades"
    THEN DarkPoolTradeQueued(batch.trades[i])
    ELSE DarkPoolTradeSettlement(batch.trades[i], batch.time)

ValidTrades(batch) ==
    {i \in 1..Len(batch.trades) : BatchTradeValid(batch, i)}

\* C4: in a batch that the instruction admits (account constraints and the
\* darkpool key hold), every valid trade is processed whatever the other
\* trades are: its event is emitted, and settle_dark_pool_trades counts it
\* in total_settlements.
C4_BatchIsolation ==
    [][(/\ submitted' # submitted
        /\ outcome'.at \notin {"accounts", "darkpool"})
       => /\ \A i \in ValidTrades(submitted') :
                BatchTradeEvent(submitted', i) \in Range(emitted')
          /\ Len(emitted') = Cardinality(ValidTrades(submitted'))
          /\ submitted'.instruction = "settle_dark_pool_trades"
                => darkpool'.total_settlements =
                       darkpool.total_settlements
                           + Cardinality(ValidTrades(submitted'))]_vars

\* The accounts after the settlement runs alone on acc.
RunAlone(acc, params) ==
    Committed(acc, settle_instruction(acc, params, ConcContext, now))

\* The accounts after the two settlements run one after the other from the
\* accounts the behaviour started from.
Serial(first, second) == RunAlone(RunAlone(base, first), second)

\* The position keys a settlement touches.
Keys(params) ==
    {PositionKey(params.trade_data.trader_a, params.trade_data.side_a),
     PositionKey(params.trade_data.trader_b, params.trade_data.side_b)}

\* The collateral a settlement adds to position k.
CollateralOn(params, k) ==
    IF k = PositionKey(params.trade_data.trader_a, params.trade_data.side_a)
    THEN params.collateral_amount_a
    ELSE params.collateral_amount_b

BothDone == \A id \in TxIds : inflight[id].phase = "done"
BothOk == \A id \in TxIds : inflight[id].err = "Ok"

\* C9: once two settlements issued concurrently are both done, the accounts
\* are those of one of the two serial executions; when both succeeded, a
\* position both touch has grown by both sizes and both collaterals, and
\* settlements on disjoint keys give the same accounts in either order.
C9_NoLostUpdate ==
    BothDone =>
        LET p1 == inflight[1].params
            p2 == inflight[2].params
        IN  /\ Accounts \in {Serial(p1, p2), Serial(p2, p1)}
            /\ BothOk =>
                   \A k \in Keys(p1) \cap Keys(p2) :
                       /\ positions[k].size_usd =
                              base.positions[k].size_usd
                                  + p1.trade_data.size_usd
                                  + p2.trade_data.size_usd
                       /\ positions[k].collateral_amount =
                              base.positions[k].collateral_amount
                                  + CollateralOn(p1, k) + CollateralOn(p2, k)
            /\ (BothOk /\ Keys(p1) \cap Keys(p2) = {}) =>
                   /\ Accounts = Serial(p1, p2)
                   /\ Accounts = Serial(p2, p1)

\* Two settlements were in flight at once, both succeeded, and both
\* increased a position that existed before with collateral from both.
C9_Witness ==
    /\ BothDone /\ BothOk
    /\ \E k \in Keys(inflight[1].params) \cap Keys(inflight[2].params) :
           /\ base.positions[k].size_usd > 0
           /\ CollateralOn(inflight[1].params, k) > 0
           /\ positions[k].collateral_amount > 0

\* The size of the trade the last successful settlement settled.
LastSettledSize == settled[Len(settled)].params.trade_data.size_usd

\* C11: a successful settle_dark_pool_trade adds exactly trade.size_usd to
\* the custody trade-volume statistic, once, and a rejected or failed one
\* leaves it unchanged.
C11_VolumeStat ==
    [][IF settled' # settled
       THEN volume_usd' = volume_usd + LastSettledSize'
       ELSE volume_usd' = volume_usd]_vars

\* The age of the trade of the last call, at the time of the call.
RequestAge == request.time - request.params.trade_data.timestamp

\* C12: a signed trade is rejected with TradeDataTooOld when its age is 300
\* seconds or more, whatever its other fields, and passes the freshness
\* check when its age is below 300; a batch that is queued has only fresh
\* trades.
C12_Freshness ==
    /\ (request # NoRequest
           /\ request.params.trade_data.darkpool_signature = "authority")
          => IF RequestAge >= MaxTradeAge
             THEN outcome.err = "TradeDataTooOld"
             ELSE outcome.err # "TradeDataTooOld" /\ outcome.at # "signature"
    /\ (submitted.instruction = "batch_settle_dark_pool_trades"
           /\ outcome.err = "Ok")
          => \A i \in 1..Len(submitted.trades) :
                 submitted.time - submitted.trades[i].timestamp < MaxTradeAge

\* |o - p| * 10000 / o, in exact arithmetic, for the last call.
RequestDeviation ==
    LET o == request.ctx.custody_oracle.price
        price == request.params.trade_data.price
    IN  ((IF o > price THEN o - price ELSE price - o) * BpsPower) \div o

\* The last call passed every check that precedes the slippage check.
ReachedSlippage ==
    /\ request # NoRequest
    /\ outcome.at \notin {"accounts", "signature", "parameters", "oracle"}

\* C13: a trade that passes the earlier checks, with an oracle price o > 0,
\* is rejected with PriceSlippageTooHigh exactly when
\* floor(|o - price| * 10000 / o) > max_price_slippage.
C13_SlippageBound ==
    (ReachedSlippage /\ request.ctx.custody_oracle.price > 0)
        => (outcome.err = "PriceSlippageTooHigh"
              <=> RequestDeviation > request.params.max_price_slippage)

\* The last call passed the account constraints and
\* verify_darkpool_signature.
ReachedParameters ==
    /\ request # NoRequest
    /\ request.ctx.darkpool_program
          = request.params.expected_darkpool_program
    /\ request.params.trade_data.darkpool_signature # "zero"
    /\ RequestAge < MaxTradeAge
    /\ RequestAge >= 0

\* C14: settle_dark_pool_trade never succeeds for a trade with equal sides,
\* no size or no price; a trade whose only defect is one of these fails with
\* InvalidTradeSides, InvalidPositionSize and InvalidPrice respectively.
C14_SideAndValueChecks ==
    LET trade == request.params.trade_data
    IN  /\ (request # NoRequest
              /\ (trade.side_a = trade.side_b \/ trade.size_usd = 0
                                              \/ trade.price = 0))
             => outcome.err # "Ok"
        /\ (ReachedParameters /\ trade.side_a = trade.side_b
              /\ trade.size_usd > 0 /\ trade.price > 0)
             => outcome.err = "InvalidTradeSides"
        /\ (ReachedParameters /\ trade.side_a # trade.side_b
              /\ trade.size_usd = 0 /\ trade.price > 0)
             => outcome.err = "InvalidPositionSize"
        /\ (ReachedParameters /\ trade.side_a # trade.side_b
              /\ trade.size_usd > 0 /\ trade.price = 0)
             => outcome.err = "InvalidPrice"

\* A signed, fresh trade with a size and a price but equal sides was
\* rejected with InvalidTradeSides.
C14_Witness ==
    /\ ReachedParameters
    /\ request.params.trade_data.side_a = request.params.trade_data.side_b
    /\ request.params.trade_data.size_usd > 0
    /\ request.params.trade_data.price > 0
    /\ outcome.err = "InvalidTradeSides"

\* The errors of the guards.
GuardErrors ==
    {"InvalidSignature", "TradeDataTooOld", "InvalidTradeSides",
     "InvalidPositionSize", "InvalidPrice", "PriceSlippageTooHigh"}

\* C15: a call of settle_dark_pool_trade that a guard rejects changes no
\* position, funding account, vault balance or volume statistic, settles
\* nothing and emits nothing; the handler itself has written nothing to the
\* accounts it was given when it returns the error, and it runs once.
C15_GuardNoSideEffect ==
    [][outcome'.err \in GuardErrors
         => /\ UNCHANGED <<positions, funding, vault, volume_usd, settled>>
            /\ emitted' = <<>>
            /\ \E ret \in {settle_instruction(Accounts, request'.params,
                                               request'.ctx, request'.time)} :
                   /\ ret.err = outcome'.err
                   /\ ret.acc = Accounts]_vars

\* The slippage guard, the last one, rejected a call on positions that an
\* earlier settlement had opened.
C15_Witness ==
    /\ outcome.err = "PriceSlippageTooHigh"
    /\ Len(settled) > 0


\* The last settle_dark_pool_trades named a darkpool other than the account.
WrongDarkpool ==
    /\ outcome.instruction = "settle_dark_pool_trades"
    /\ submitted.darkpool # DarkpoolKey

\* The last settle_dark_pool_trade passed a darkpool program other than the
\* expected one.
WrongDarkpoolProgram ==
    /\ outcome.instruction = "settle_dark_pool_trade"
    /\ request.ctx.darkpool_program # request.params.expected_darkpool_program

\* C16: settle_dark_pool_trades with a settlement whose darkpool is not the
\* darkpool account fails, with InvalidSettlementData when its authority
\* signed, and leaves total_settlements unchanged and emits no event;
\* settle_dark_pool_trade with a darkpool program that is not the expected one
\* fails and leaves every position as it was.
C16_SourceCheck ==
    [][/\ WrongDarkpool' =>
             /\ outcome'.err # "Ok"
             /\ submitted'.authority = darkpool.authority =>
                    outcome'.err = "InvalidSettlementData"
             /\ darkpool'.total_settlements = darkpool.total_settlements
             /\ emitted' = <<>>
       /\ WrongDarkpoolProgram' =>
             /\ outcome'.err # "Ok"
             /\ positions' = positions
             /\ emitted' = <<>>]_vars

\* A settlement from a wrong darkpool was rejected after one was counted, and
\* a trade from a wrong darkpool program was rejected after one was settled.
C16_Witness ==
    /\ WrongDarkpool
    /\ outcome.err = "InvalidSettlementData"
    /\ darkpool.total_settlements > 0
    /\ request.ctx.darkpool_program # request.params.expected_darkpool_program
    /\ Len(settled) > 0


\* The orders a and b are a long (side 0) and a short (side 1) for the same
\* pool and custody, and the long's limit is at least the short's.
Compatible(a, b) ==
    /\ {a.side, b.side} = {0, 1}
    /\ a.pool = b.pool
    /\ a.custody = b.custody
    /\ \A long \in {a, b}, short \in {a, b} :
           (long.side = 0 /\ short.side = 1) =>
               long.max_price >= short.max_price

\* C17: can_match(a, b) is true exactly when a and b are on opposite sides
\* (one 0, one 1), for the same pool and the same custody, and the long's
\* limit is at least the short's; so it is false for a same-side pair, for
\* differing pool or custody and for a side outside {0, 1}, whichever order
\* comes first.
C17_CanMatch ==
    \A i \in DOMAIN orders, j \in DOMAIN orders :
        i # j =>
            /\ can_match(orders[i], orders[j])
                   <=> Compatible(orders[i], orders[j])
            /\ can_match(orders[i], orders[j])
                   <=> can_match(orders[j], orders[i])
            /\ (orders[i].side = orders[j].side
                    \/ orders[i].pool # orders[j].pool
                    \/ orders[i].custody # orders[j].custody
                    \/ orders[i].side \notin {0, 1}
                    \/ orders[j].side \notin {0, 1})
                   => ~can_match(orders[i], orders[j])

\* The circuit matched a short passed first with a long of a higher limit.
C17_Witness ==
    /\ result.err = "Ok"
    /\ Len(orders) = 2
    /\ orders[1].side = 1 /\ orders[2].side = 0
    /\ orders[2].max_price > orders[1].max_price
    /\ can_match(orders[1], orders[2])
    /\ Len(result.matches) = 1


\* The places in the batch of the two orders of a match.
Pair(m) == <<m.order_a.nonce, m.order_b.nonce>>

\* The pair p comes before the pair q in lexicographic order.
Before(p, q) == p[1] < q[1] \/ (p[1] = q[1] /\ p[2] < q[2])

\* The scenario: a long with limit 110 and size 50, a short with limit 100
\* and size 80, on the same pool and custody.
Scenario ==
    Batch(<<<<0, 50, 110, PoolKey, CustodyKey>>,
            <<1, 80, 100, PoolKey, CustodyKey>>>>)

\* C18: the result of match_dark_orders holds one match for each pair of
\* places i < j whose orders can match, and no other, in lexicographic order
\* of (i, j); no order is consumed. The scenario yields one match of size 50
\* at price 105, total_volume 50 and average_price 105.
C18_AllPairs ==
    /\ result.err = "Ok" =>
          /\ \A k \in DOMAIN result.matches :
                 /\ Pair(result.matches[k])[1] < Pair(result.matches[k])[2]
                 /\ Pair(result.matches[k])[2] <= Len(orders)
                 /\ result.matches[k].order_a
                        = orders[Pair(result.matches[k])[1]]
                 /\ result.matches[k].order_b
                        = orders[Pair(result.matches[k])[2]]
                 /\ Compatible(result.matches[k].order_a,
                               result.matches[k].order_b)
          /\ \A i \in DOMAIN orders, j \in DOMAIN orders :
                 (i < j /\ Compatible(orders[i], orders[j])) =>
                     \E k \in DOMAIN result.matches :
                         Pair(result.matches[k]) = <<i, j>>
          /\ \A k \in DOMAIN result.matches, l \in DOMAIN result.matches :
                 k < l => Before(Pair(result.matches[k]),
                                 Pair(result.matches[l]))
    /\ (orders = Scenario /\ result # NoResult) =>
          /\ result.err = "Ok"
          /\ result.matches = <<OrderMatch(orders[1], orders[2], 50, 105)>>
          /\ result.total_volume = 50
          /\ result.average_price = 105

\* A batch of three orders gave two matches that share an order.
C18_Witness ==
    /\ result.err = "Ok"
    /\ Len(orders) = 3
    /\ Len(result.matches) = 2
    /\ {Pair(result.matches[1])[1], Pair(result.matches[1])[2]}
           \cap {Pair(result.matches[2])[1], Pair(result.matches[2])[2]} # {}


\* C19: every match of a result has execution_price equal to the floor of
\* half the sum of the two limits, and matched_size equal to the smaller of
\* the two sizes, so at most each of them.
C19_MidpointAndMin ==
    result.err = "Ok" =>
        \A k \in DOMAIN result.matches :
            /\ result.matches[k].execution_price
                   = (result.matches[k].order_a.max_price
                          + result.matches[k].order_b.max_price) \div 2
            /\ result.matches[k].matched_size
                   = Min(result.matches[k].order_a.size_usd,
                         result.matches[k].order_b.size_usd)
            /\ result.matches[k].matched_size
                   <= result.matches[k].order_a.size_usd
            /\ result.matches[k].matched_size
                   <= result.matches[k].order_b.size_usd


\* The sum of matched_size over the matches ms.
RECURSIVE MatchedVolume(_)
MatchedVolume(ms) ==
    IF ms = <<>> THEN 0 ELSE Head(ms).matched_size + MatchedVolume(Tail(ms))

\* The sum of matched_size * execution_price over the matches ms.
RECURSIVE MatchedValue(_)
MatchedValue(ms) ==
    IF ms = <<>> THEN 0
    ELSE Head(ms).matched_size * Head(ms).execution_price
             + MatchedValue(Tail(ms))

\* C20: in a result, total_volume is the sum of matched_size over its
\* matches; average_price is the floor of the summed matched_size *
\* execution_price over total_volume when total_volume > 0, and 0 when there
\* is no match, as for an empty or a single-order batch.
C20_Aggregates ==
    result.err = "Ok" =>
        /\ result.total_volume = MatchedVolume(result.matches)
        /\ result.total_volume > 0 =>
               result.average_price
                   = MatchedValue(result.matches) \div result.total_volume
        /\ result.matches = <<>> =>
               result.total_volume = 0 /\ result.average_price = 0
        /\ Len(orders) <= 1 => result.matches = <<>>


\* The sum of matched_size over the matches of ms that hold the order at
\* place i of the batch.
RECURSIVE ClearedOf(_, _)
ClearedOf(i, ms) ==
    IF ms = <<>> THEN 0
    ELSE (IF i \in {Pair(Head(ms))[1], Pair(Head(ms))[2]}
          THEN Head(ms).matched_size ELSE 0) + ClearedOf(i, Tail(ms))

\* C21: in a result, the matched sizes of the matches that hold an order add
\* up to at most that order's size_usd.
C21_RemainingSize ==
    result.err = "Ok" =>
        \A i \in DOMAIN orders :
            ClearedOf(i, result.matches) <= orders[i].size_usd


\* What the validation is to compute for an order.
ValidOrder(order) ==
    /\ order.size_usd > 0
    /\ order.collateral_amount > 0
    /\ 1 <= order.leverage /\ order.leverage <= 100
    /\ order.max_price > 0
    /\ order.side \in {0, 1}

\* The value the circuit submit_dark_order computed for the queued order.
Validated == computation.output.ciphertexts[1].ciphertext

\* C22: the circuit submit_dark_order returns true exactly for an order with
\* size_usd > 0, collateral_amount > 0, 1 <= leverage <= 100, max_price > 0
\* and side 0 or 1, so false when a size, collateral, leverage or limit is 0,
\* the leverage is above 100 or the side is undefined; running it changes no
\* account, emits nothing and returns nothing to a caller.
C22_Validator ==
    [][(/\ computation.circuit = "submit_dark_order"
        /\ computation.status = "Queued"
        /\ computation'.status = "Success")
       => /\ Validated' <=> ValidOrder(computation.input)
          /\ (\/ computation.input.size_usd = 0
              \/ computation.input.collateral_amount = 0
              \/ computation.input.leverage = 0
              \/ computation.input.leverage > 100
              \/ computation.input.max_price = 0
              \/ computation.input.side \notin {0, 1}) => ~Validated'
          /\ computation'.input = computation.input
          /\ UNCHANGED <<darkpool, positions, funding, vault, volume_usd,
                         outcome, emitted, settled>>]_vars

\* The circuit ran on an order whose only flaw is a leverage of 101 and
\* computed false.
C22_Witness ==
    /\ computation.circuit = "submit_dark_order"
    /\ computation.status = "Success"
    /\ computation.input.leverage = 101
    /\ ValidOrder([computation.input EXCEPT !.leverage = 100])
    /\ ~Validated


\* The callback of submit_dark_order returned last, on a computation that
\* completed.
ValidationDelivered ==
    /\ outcome.instruction = "callback"
    /\ computation.circuit = "submit_dark_order"
    /\ computation.output.status = "Success"

\* C23: when the circuit computed false for a submitted order, the callback
\* returns InvalidOrderParameters and emits no DarkOrderValidated;
\* DarkOrderValidated is emitted only for an order the circuit computed true
\* for.
C23_FailedValidationDiscarded ==
    ValidationDelivered =>
        /\ ~Validated =>
               /\ outcome.err = "InvalidOrderParameters"
               /\ \A k \in DOMAIN emitted :
                      emitted[k].event # "DarkOrderValidated"
        /\ (\E k \in DOMAIN emitted :
                emitted[k].event = "DarkOrderValidated") => Validated


\* C24: no match of a result holds an order that breaks an order invariant:
\* size_usd 0, collateral_amount 0, max_price 0, leverage outside 1..100 or
\* a side other than 0 and 1.
C24_InvalidNeverMatched ==
    result.err = "Ok" =>
        \A k \in DOMAIN result.matches :
            /\ ValidOrder(result.matches[k].order_a)
            /\ ValidOrder(result.matches[k].order_b)


\* The order passes the filter of batch_process_orders.
Kept(order) == order.size_usd > 0 /\ order.collateral_amount > 0

\* C25: batch_process_orders returns what match_dark_orders returns for the
\* orders of the batch with size_usd > 0 and collateral_amount > 0, in their
\* order; the other orders are in no match and add nothing to total_volume
\* and average_price.
C25_FilterThenMatch ==
    result # NoResult =>
        /\ result = match_dark_orders(SelectSeq(orders, Kept))
        /\ \A k \in DOMAIN result.matches :
               /\ Kept(result.matches[k].order_a)
               /\ Kept(result.matches[k].order_b)

\* batch_process_orders dropped an order between a long and a short and
\* matched the two.
C25_Witness ==
    /\ result.err = "Ok"
    /\ Len(orders) = 3
    /\ Kept(orders[1]) /\ ~Kept(orders[2]) /\ Kept(orders[3])
    /\ Len(result.matches) = 1
    /\ Pair(result.matches[1]) = <<1, 3>>


\* The error each callback returns for a computation that did not succeed.
AbortedError ==
    IF computation.circuit = "submit_dark_order" THEN "OrderValidationFailed"
    ELSE IF computation.circuit = "match_dark_orders" THEN "MatchingFailed"
    ELSE "AbortedComputation"

\* C26: a callback that is given an outcome other than success returns its
\* error, emits no event and leaves every counter of the darkpool as it was.
C26_AbortedComputation ==
    [][(computation.status = "Failure" /\ computation'.status = "Delivered")
       => /\ outcome'.instruction = "callback"
          /\ outcome'.err = AbortedError
          /\ emitted' = <<>>
          /\ darkpool' = darkpool]_vars

\* The callback of match_dark_orders was given a failed computation after
\* the request had been counted.
C26_Witness ==
    /\ outcome.instruction = "callback"
    /\ computation.circuit = "match_dark_orders"
    /\ computation.status = "Delivered"
    /\ computation.output.status = "Failure"
    /\ outcome.err = "MatchingFailed"
    /\ darkpool.total_matches > 0


\* The instruction of the circuit c queued its computation in this step.
QueuedNow(c) ==
    /\ computation.status # "Queued"
    /\ computation'.status = "Queued"
    /\ computation'.circuit = c

\* settle_dark_pool_trades succeeded in this step.
SettledNow ==
    /\ outcome'.instruction = "settle_dark_pool_trades"
    /\ outcome'.err = "Ok"
    /\ computation' = computation

\* C27: the counters of the Darkpool account are 0 after initialize_darkpool
\* and never decrease; a successful submit_dark_order adds 1 to total_orders,
\* a successful match_dark_orders adds 1 to total_matches, a successful
\* settle_dark_pool_trades adds the number of its trades to
\* total_settlements, and nothing else changes the three: not a failed call,
\* not the computation, not a callback.
C27_Counters ==
    [][/\ initialize_darkpool.total_orders = 0
       /\ initialize_darkpool.total_matches = 0
       /\ initialize_darkpool.total_settlements = 0
       /\ initialize_darkpool.total_volume = 0
       /\ darkpool'.total_volume >= darkpool.total_volume
       /\ darkpool'.total_orders =
              darkpool.total_orders
                  + (IF QueuedNow("submit_dark_order") THEN 1 ELSE 0)
       /\ darkpool'.total_matches =
              darkpool.total_matches
                  + (IF QueuedNow("match_dark_orders") THEN 1 ELSE 0)
       /\ darkpool'.total_settlements =
              darkpool.total_settlements
                  + (IF SettledNow THEN Len(submitted'.trades) ELSE 0)]_vars

\* An order was submitted, a matching requested and two trades settled, and
\* then a call failed.
C27_Witness ==
    /\ darkpool.total_orders = 1
    /\ darkpool.total_matches = 1
    /\ darkpool.total_settlements >= 2
    /\ outcome.err \notin {"Ok", "None"}


\* The sum of f over the set S.
RECURSIVE SumOver(_, _)
SumOver(f, S) ==
    IF S = {} THEN 0
    ELSE Let(CHOOSE x \in S : TRUE,
             LAMBDA x : f[x] + SumOver(f, S \ {x}))

\* What the settlement just made took from the trader: the collateral of
\* each leg the trader is on.
TakenFrom(trader) ==
    (IF request.params.trade_data.trader_a = trader
     THEN request.params.collateral_amount_a ELSE 0)
        + (IF request.params.trade_data.trader_b = trader
           THEN request.params.collateral_amount_b ELSE 0)

\* C28: a successful settle_dark_pool_trade moves collateral_amount_a +
\* collateral_amount_b into the vault, each amount out of its trader's
\* funding account; so the vault holds the sum of collateral_amount over the
\* positions, which is what the funding accounts have lost.
C28_CollateralConserved ==
    [][/\ settled' # settled =>
             /\ vault' = vault + request'.params.collateral_amount_a
                               + request'.params.collateral_amount_b
             /\ \A t \in Traders : funding'[t] = funding[t] - TakenFrom(t)'
       /\ vault' = SumOver([k \in PosKeys |-> positions'[k].collateral_amount],
                           PosKeys)
       /\ vault' = SumOver([t \in Traders |-> InitFunds - funding'[t]],
                           Traders)]_vars

\* Both traders have paid collateral and the vault holds it.
C28_Witness ==
    /\ vault = 2 * InitFunds
    /\ \A t \in Traders : funding[t] = 0
    /\ Len(settled) > 0


\* The limit of the order of the match m that is on the given side.
LimitOf(m, side) ==
    IF m.order_a.side = side THEN m.order_a.max_price
    ELSE m.order_b.max_price

\* C29: every match of a result executes at a price between the limit of
\* its short (side 1) and the limit of its long (side 0).
C29_WithinLimits ==
    result.err = "Ok" =>
        \A k \in DOMAIN result.matches :
            /\ LimitOf(result.matches[k], 1)
                   <= result.matches[k].execution_price
            /\ result.matches[k].execution_price
                   <= LimitOf(result.matches[k], 0)

\* The trade prices of a sequence of fills.
FillPrices(fills) == {fills[i][1] : i \in DOMAIN fills}

\* C30: the price of a non-empty position lies between the smallest and the
\* largest trade price among the fills settled into it.
C30_PriceWithinFills ==
    \A k \in PosKeys :
        positions[k].size_usd > 0 =>
            /\ \E p \in FillPrices(Fills(k)) : p <= positions[k].price
            /\ \E p \in FillPrices(Fills(k)) : positions[k].price <= p

\* |a - b|.
Distance(a, b) == IF a > b THEN a - b ELSE b - a

\* The first check a call fails, in the order InvalidSignature,
\* TradeDataTooOld, InvalidPositionSize, InvalidPrice, InvalidTradeSides,
\* PriceSlippageTooHigh, each check taken in exact arithmetic; "Ok" when the
\* call fails none.
FirstFailing(call) ==
    LET trade == call.params.trade_data
        oracle == call.ctx.custody_oracle.price
    IN  IF trade.darkpool_signature = "zero" THEN "InvalidSignature"
        ELSE IF call.time - trade.timestamp >= MaxTradeAge
             THEN "TradeDataTooOld"
        ELSE IF trade.size_usd = 0 THEN "InvalidPositionSize"
        ELSE IF trade.price = 0 THEN "InvalidPrice"
        ELSE IF trade.side_a = trade.side_b THEN "InvalidTradeSides"
        ELSE IF (Distance(oracle, trade.price) * BpsPower) \div oracle
                    > call.params.max_price_slippage
             THEN "PriceSlippageTooHigh"
        ELSE "Ok"

\* C31: a call of settle_dark_pool_trade that reaches the handler, with a
\* positive oracle price, and fails one or more of the checks returns the
\* error of the first check it fails.
C31_GuardPrecedence ==
    (/\ outcome.instruction = "settle_dark_pool_trade"
     /\ outcome.at # "accounts"
     /\ request.ctx.custody_oracle.price > 0
     /\ FirstFailing(request) # "Ok")
    => outcome.err = FirstFailing(request)

\* The pairs of places i < j of the batch whose orders can match.
Matchable(batch) ==
    {p \in (DOMAIN batch) \X (DOMAIN batch) :
        p[1] < p[2] /\ can_match(batch[p[1]], batch[p[2]])}

\* The exact sum of the limits, matched size and matched value of the pair
\* p of the batch.
LimitSum(batch, p) == batch[p[1]].max_price + batch[p[2]].max_price

PairSize(batch, p) == Min(batch[p[1]].size_usd, batch[p[2]].size_usd)

PairValue(batch, p) == PairSize(batch, p) * (LimitSum(batch, p) \div 2)

\* The exact total_volume and total_value of the batch.
ExactVolume(batch) ==
    SumOver([p \in Matchable(batch) |-> PairSize(batch, p)], Matchable(batch))

ExactValue(batch) ==
    SumOver([p \in Matchable(batch) |-> PairValue(batch, p)],
            Matchable(batch))

\* C32: for every batch the matcher has run on, the sum of the two limits
\* and the matched value of every matched pair and the totals total_volume
\* and total_value are below 2^64, the circuit returns a result, and its
\* execution prices and average_price are the exact values.
C32_NeverWraps ==
    result # NoResult =>
        /\ \A p \in Matchable(orders) :
               LimitSum(orders, p) < U64 /\ PairValue(orders, p) < U64
        /\ ExactVolume(orders) < U64
        /\ ExactValue(orders) < U64
        /\ result.err = "Ok"
        /\ \A k \in DOMAIN result.matches :
               result.matches[k].execution_price
                   = LimitSum(orders, Pair(result.matches[k])) \div 2
        /\ result.average_price
               = IF ExactVolume(orders) > 0
                 THEN ExactValue(orders) \div ExactVolume(orders)
                 ELSE 0

\* The events with the pool and custody of the trade record blanked.
WithoutKeys(events) ==
    [i \in DOMAIN events |->
        [events[i] EXCEPT !.pool = NoKey, !.custody = NoKey]]

\* C33: a call of settle_dark_pool_trade and the same call from the same
\* state with any other pool, custody and collateral_custody in the trade
\* record return the same error and leave the same positions, balances and
\* statistics; their events differ at most in pool and custody.
C33_TradeKeysIgnored ==
    [][\A keys \in TradeKeys :
          Let(settle_instruction(
                  Accounts,
                  WithKeys(request'.params, keys[1], keys[2], keys[3]),
                  request'.ctx, request'.time),
              LAMBDA other :
                  /\ other.err = outcome'.err
                  /\ Committed(Accounts, other) = Accounts'
                  /\ WithoutKeys(other.events) = WithoutKeys(emitted'))]_vars

\* A trade record naming another pool and another custody opened a position
\* on the pool and custody of the accounts, with collateral.
C33_Witness ==
    /\ outcome.err = "Ok"
    /\ request.params.trade_data.pool = OtherPoolKey
    /\ request.params.trade_data.custody = CollateralCustodyKey
    /\ request.params.collateral_amount_a = InitFunds
    /\ \E k \in PosKeys :
           /\ positions[k].size_usd > 0
           /\ positions[k].pool = PoolKey
           /\ positions[k].custody = CustodyKey
           /\ positions[k].collateral_amount = InitFunds
    /\ Len(emitted) = 1
    /\ emitted[1].pool = OtherPoolKey

====
